---- MODULE Spec2Model ----
(***************************************************************************)
(* Verification model of the spacegame back end: the per-game store        *)
(* (star systems, ships, structures, turns, player turn status, orders,    *)
(* snapshots), the admin row of the game, the order validator              *)
(* (main.py create_order / delete_order), the submission gate              *)
(* (main.py submit_turn) and the turn resolver                             *)
(* (turn_resolver.py resolve_turn).                                        *)
(*                                                                         *)
(* Every request handler runs in one store transaction and is one action.  *)
(* resolve_turn commits three times (turn_resolver.py lines 272, 288 and   *)
(* 301), so it is three actions, one per committed transaction; the state  *)
(* of the model is the committed state of the two stores.                  *)
(***************************************************************************)
EXTENDS Integers, Sequences, FiniteSets, TLC

(***************************************************************************)
(* Bounds of the model.                                                    *)
(***************************************************************************)
\* Turn ids run from 1 to MaxTurn; the turns below MaxTurn can be resolved.
MaxTurn == 3
\* The order rows a game inserts (Spec, which takes every request, inserts one less).
MaxOrders == 2
\* The largest quantity a request asks for.
MaxQty == 2
\* The longest material_sources list a request carries.
MaxDonors == 3
\* The most ships a side brings to a combat whose rounds are followed one by one.
MaxFleet == 2
\* The most rounds of such a combat that are followed.
MaxRounds == 3
\* The users that ask to join the game.
MaxUsers == 4
\* The most players a map is generated for.
MaxPlayers == 8
\* The greatest seed a map is generated from.
MaxSeed == 63
\* The draws other code makes from the generator of the process between two calls of
\* generate_map.
MaxDraws == 2
\* The create-order requests that are in progress at the same time.
MaxRequests == 3

(***************************************************************************)
(* Program constants.                                                      *)
(***************************************************************************)
MINE_COST == 15
SHIPYARD_COST == 30
NEUTRAL_PLAYER_INDEX == -1
FW_GARRISON == 300
HOME_MINING_VALUE == 5
MATERIALS == 50
HOME_FLEET == 8
EXPANSION_FLEET == 6
NULL == 0

(***************************************************************************)
(* The board: a two-player map as generate_map lays it out, cut down to    *)
(* Founder's World, the two home systems and one more system, Bridge,      *)
(* that lies between the two players and carries the spoke to Founder's    *)
(* World.  System ids are the store's autoincrement ids.  Bridge has the   *)
(* mining value of Antares, the system it stands for in the test game.     *)
(***************************************************************************)
Players == {1, 2}
Sides == Players \cup {NEUTRAL_PLAYER_INDEX}
FW == 1
Home == [p \in Players |-> p + 1]
Bridge == 4
Systems == {FW, Home[1], Home[2], Bridge}
JumpLines == {<<Home[1], Bridge>>, <<Home[2], Bridge>>, <<FW, Bridge>>}
BridgeMiningValue == 4
mining_value ==
    [s \in Systems |-> IF s = Bridge THEN BridgeMiningValue ELSE HOME_MINING_VALUE]
is_founders_world == [s \in Systems |-> s = FW]
is_home_system == [s \in Systems |-> \E p \in Players : s = Home[p]]

StructTypes == {"mine", "shipyard"}
OrderTypes == {"move_ships", "build_mine", "build_shipyard", "build_ships"}

(* Inputs of the requests.  Donors give in units of 5, so that three of them make up the
   cost of a mine. *)
TurnIds == 1..MaxTurn
SystemIdInputs == Systems \cup {NULL}
QuantityInputs == 0..MaxQty
DonorAmounts == {5}
MaterialSourceInputs == [system_id : Systems, amount : DonorAmounts]
SeqsUpTo(S, n) == UNION {[1..m -> S] : m \in 0..n}
MaterialSourceLists == SeqsUpTo(MaterialSourceInputs, MaxDonors)

VARIABLES
    game,        \* admin store: the Game row (status, current_turn, winner_player_index)
    materials,   \* StarSystem.materials, per system
    owner,       \* StarSystem.owner_player_index, per system (NULL = none)
    ships,       \* Ship rows: <<system_id, player_index>> -> count, one entry per row
    structures,  \* Structure rows: <<system_id, type, player_index>> -> number of rows
    turns,       \* Turn rows: turn_id -> [status, resolved_at]
    pts,         \* PlayerTurnStatus rows: <<turn_id, player_index>> -> [submitted, submitted_at]
    orders,      \* Order rows with their OrderMaterialSource rows, as a bag
    order_seq,   \* the autoincrement of Order.order_id: the order rows inserted so far
    snapshots,   \* TurnSnapshot rows: turn_id -> snapshot
    rpc,         \* per turn, how far the resolve_turn call that committed it has got
    last,        \* the last request and its response
    combat,      \* the round loop of step 5 run on its own: its current, active and
                 \* round_num, and the CombatLog entries it has added
    replay,      \* the round loop run a second time on the same ship rows: what the first
                 \* run logged and left
    game_players, \* admin store: the GamePlayer rows of the game, in the order of insertion
    joins,       \* per user, how far their join_game request has got and the count it read
    gen,         \* one run of generate_map: the seeded generator, the clusters and the graph
                 \* built so far, and the place the run has reached
    creates,     \* the create-order requests that are followed in two steps: what each has
                 \* checked and not yet inserted
    regen,       \* generate_map called a second time with the same arguments: the state of the
                 \* generator of the process (the random module), and what the first call
                 \* returned
    map_saves    \* what the runs of _generate_and_save_map leave behind: how many there were,
                 \* and the number of PlayerTurnStatus rows of turn 1 per player (the rows are
                 \* never deleted by _save_map_to_game_db)

vars == <<game, materials, owner, ships, structures, turns, pts, orders, order_seq, snapshots, rpc, last,
          combat, replay, game_players, joins, map_saves, gen, regen, creates>>
\* The lobby of the game.
lobby == <<game_players, joins, map_saves>>
\* What the requests and the resolver of a started game never touch.
aside == <<combat, replay, lobby, gen, regen, creates>>
store == <<game, materials, owner, ships, structures, turns, pts, orders, order_seq, snapshots>>

(***************************************************************************)
(* Helpers over the rows.                                                  *)
(***************************************************************************)
RECURSIVE BagToSeq(_)
\* The rows of a bag, each as often as the bag holds it, in the order a query returns them.
BagToSeq(B) ==
    IF DOMAIN B = {} THEN <<>>
    ELSE LET o == CHOOSE x \in DOMAIN B : TRUE
         IN  <<o>> \o BagToSeq(IF B[o] = 1 THEN [x \in DOMAIN B \ {o} |-> B[x]]
                                            ELSE [B EXCEPT ![o] = @ - 1])

\* One more row / one row less in a bag of rows.
BagAdd(B, o) == IF o \in DOMAIN B THEN [B EXCEPT ![o] = @ + 1] ELSE B @@ (o :> 1)
BagRemove(B, o) ==
    IF B[o] = 1 THEN [x \in DOMAIN B \ {o} |-> B[x]] ELSE [B EXCEPT ![o] = @ - 1]

\* datetime.now(): a clock that has advanced by the time a turn is resolved.
Now == 1 + Cardinality({k \in DOMAIN turns : turns[k].status = "resolved"})

\* ship.count if ship else 0
ShipCount(sh, s, p) == IF <<s, p>> \in DOMAIN sh THEN sh[<<s, p>>] ELSE 0

\* _get_or_create_ship: the row, created with count 0 when it is missing.
_get_or_create_ship(sh, s, p) ==
    IF <<s, p>> \in DOMAIN sh THEN sh ELSE sh @@ (<<s, p>> :> 0)

\* _get_structure: is there a structure row of this type at the system.
_get_structure(st, s, t) == \E p \in Sides : st[<<s, t, p>>] > 0

\* _are_adjacent: a jump line in either direction.
_are_adjacent(a, b) == <<a, b>> \in JumpLines \/ <<b, a>> \in JumpLines

\* The round loop is not run on its own: no sides, no entries.
NoCombat == [current |-> << >>, active |-> {}, round_num |-> 1, log |-> << >>]

\* The round loop has not been run a second time.
NoReplay == [done |-> FALSE, current |-> << >>, log |-> << >>]

\* generate_map is not being run.
NoGen == [phase |-> "none"]

\* No create-order request is between its checks and its insertion.
Requests == 1..MaxRequests
NoCreate == [pc |-> "idle", row |-> << >>]

\* The generator of the process has its state at start-up and generate_map has not returned.
NoRegen == [global |-> 0, first |-> << >>]

\* Game.num_players of the game.
num_players == Cardinality(Players)

\* The users that send join requests; user 1 created the game.
Users == 1..MaxUsers

\* No join_game request of the user is under way.
NoJoin == [pc |-> "idle", player_count |-> 0]

\* The lobby of a game that was filled and started without interleaving: the users
\* 1..num_players hold the player indices in order and the map was saved once.
StartedLobby ==
    /\ game_players = [i \in 1..num_players |-> [user_id |-> i, player_index |-> i]]
    /\ joins = [u \in Users |-> NoJoin]
    /\ map_saves = [count |-> 1, status_rows |-> [p \in Players |-> 1]]

(***************************************************************************)
(* The initial state: the store as _save_map_to_game_db leaves it and the  *)
(* Game row as _generate_and_save_map leaves it.                           *)
(***************************************************************************)
Init ==
    /\ game = [status |-> "active", current_turn |-> 1, winner_player_index |-> NULL]
    /\ materials = [s \in Systems |-> 0]
    /\ owner = [s \in Systems |-> IF \E p \in Players : s = Home[p]
                                   THEN CHOOSE p \in Players : s = Home[p]
                                   ELSE NULL]
    /\ ships = [r \in {<<Home[p], p>> : p \in Players} \cup {<<FW, NEUTRAL_PLAYER_INDEX>>}
                 |-> IF r[1] = FW THEN FW_GARRISON ELSE 1]
    /\ structures = [r \in Systems \X StructTypes \X Sides
                      |-> IF r[3] \in Players /\ r[1] = Home[r[3]] THEN 1 ELSE 0]
    /\ turns = (1 :> [status |-> "active", resolved_at |-> NULL])
    /\ pts = [r \in {1} \X Players |-> [submitted |-> FALSE, submitted_at |-> NULL]]
    /\ orders = << >>
    /\ order_seq = 0
    /\ snapshots = << >>
    /\ rpc = [k \in TurnIds |-> "idle"]
    /\ last = [op |-> "none", status_code |-> NULL]
    /\ combat = NoCombat
    /\ replay = NoReplay
    /\ regen = NoRegen
    /\ creates = [r \in Requests |-> NoCreate]
    /\ gen = NoGen
    /\ StartedLobby

(***************************************************************************)
(* Order validator (main.py).                                              *)
(***************************************************************************)
RECURSIVE QuantitySum(_)
\* sum(o.quantity or 0 for o in orders)
QuantitySum(os) == IF os = <<>> THEN 0 ELSE Head(os).quantity + QuantitySum(Tail(os))

RECURSIVE AmountSum(_)
\* sum(ms.amount for ms in material_sources)
AmountSum(ms) == IF ms = <<>> THEN 0 ELSE Head(ms).amount + AmountSum(Tail(ms))

RECURSIVE SourceAmountSum(_, _)
\* Sum of the OrderMaterialSource amounts of the orders os that draw from system s.
SourceAmountSum(os, s) ==
    IF os = <<>> THEN 0
    ELSE AmountSum(SelectSeq(Head(os).material_sources, LAMBDA ms : ms.system_id = s))
         + SourceAmountSum(Tail(os), s)

PendingOrders(ords, k, p, t, s) ==
    SelectSeq(BagToSeq(ords),
              LAMBDA o : o.turn_id = k /\ o.player_index = p
                         /\ o.order_type = t /\ o.source_system_id = s)

\* Sum of ships already ordered to move out of a system this turn.
_committed_ships_out(ords, k, p, s) == QuantitySum(PendingOrders(ords, k, p, "move_ships", s))

\* Materials already committed from a system by pending orders this turn.
_committed_materials(ords, k, p, s) ==
    Len(PendingOrders(ords, k, p, "build_shipyard", s)) * SHIPYARD_COST
    + QuantitySum(PendingOrders(ords, k, p, "build_ships", s))
    + SourceAmountSum(SelectSeq(BagToSeq(ords),
                                LAMBDA o : o.turn_id = k /\ o.player_index = p), s)

\* Mutant of _check_turn_not_submitted: the status row is not looked at.
_check_turn_not_submitted_off(k, p) == TRUE

\* _check_turn_not_submitted: TRUE when the request may go on.
_check_turn_not_submitted(k, p) ==
    ~(<<k, p>> \in DOMAIN pts /\ pts[<<k, p>>].submitted)

\* Mutant of CommonChecks: the owner of the source system is not looked at.
CommonChecks_any_owner(p, k, type, src) ==
    IF ~_check_turn_not_submitted(k, p) THEN "Turn already submitted"
    ELSE IF src \notin Systems THEN "Source system not found"
    ELSE IF type \notin OrderTypes THEN "Unknown order_type"
    ELSE "ok"

\* create_order, lines 581-588 (and 612, 650, 675, 695): the checks every order type starts with.
CommonChecks(p, k, type, src) ==
    IF ~_check_turn_not_submitted(k, p) THEN "Turn already submitted"
    ELSE IF src \notin Systems THEN "Source system not found"
    ELSE IF type \notin OrderTypes THEN "Unknown order_type"
    ELSE IF owner[src] # p THEN "You don't own the source system"
    ELSE "ok"

\* create_order, move_ships branch, lines 590-602.
MoveChecks(p, k, src, tgt, qty) ==
    IF tgt = NULL THEN "target_system_id required for move_ships"
    ELSE IF ~_are_adjacent(src, tgt) THEN "Target system is not adjacent"
    ELSE IF qty < 1 THEN "quantity must be >= 1"
    ELSE IF qty > ShipCount(ships, src, p) - _committed_ships_out(orders, k, p, src)
         THEN "Only n ships available"
    ELSE "ok"

\* create_order, build_mine branch, lines 614-621: the checks before the donors are read.
MineSiteChecks(p, k, src) ==
    IF _get_structure(structures, src, "mine") THEN "System already has a mine"
    ELSE IF PendingOrders(orders, k, p, "build_mine", src) # <<>>
         THEN "Already ordered a mine here this turn"
    ELSE "ok"

\* create_order, build_mine branch, lines 629-638: the check of one donor.
DonorCheck(p, k, src, ms) ==
    IF ms.system_id = src THEN "Material source must be a different system"
    ELSE IF owner[ms.system_id] # p THEN "System not owned by you"
    ELSE IF ms.amount > materials[ms.system_id] - _committed_materials(orders, k, p, ms.system_id)
         THEN "System only has n materials available"
    ELSE "ok"

\* Mutant of MineSourceChecks: the sum of the donor amounts is not compared with the cost.
MineSourceChecks_any_sum(p, k, src, mss) ==
    IF mss = <<>> THEN "material_sources required for build_mine"
    ELSE IF \E i \in 1..Len(mss) : DonorCheck(p, k, src, mss[i]) # "ok"
         THEN LET i == CHOOSE j \in 1..Len(mss) :
                          /\ DonorCheck(p, k, src, mss[j]) # "ok"
                          /\ \A h \in 1..(j - 1) : DonorCheck(p, k, src, mss[h]) = "ok"
              IN  DonorCheck(p, k, src, mss[i])
    ELSE "ok"

\* create_order, build_mine branch, lines 623-638.
MineSourceChecks(p, k, src, mss) ==
    IF mss = <<>> THEN "material_sources required for build_mine"
    ELSE IF AmountSum(mss) # MINE_COST THEN "Material sources must sum to 15"
    ELSE IF \E i \in 1..Len(mss) : DonorCheck(p, k, src, mss[i]) # "ok"
         THEN LET i == CHOOSE j \in 1..Len(mss) :
                          /\ DonorCheck(p, k, src, mss[j]) # "ok"
                          /\ \A h \in 1..(j - 1) : DonorCheck(p, k, src, mss[h]) = "ok"
              IN  DonorCheck(p, k, src, mss[i])
    ELSE "ok"

\* create_order, build_shipyard branch, lines 652-666.
ShipyardChecks(p, k, src) ==
    IF ~_get_structure(structures, src, "mine") THEN "System must have an existing mine"
    ELSE IF _get_structure(structures, src, "shipyard") THEN "System already has a shipyard"
    ELSE IF PendingOrders(orders, k, p, "build_shipyard", src) # <<>>
         THEN "Already ordered a shipyard here this turn"
    ELSE IF materials[src] - _committed_materials(orders, k, p, src) < SHIPYARD_COST
         THEN "Need 30 materials"
    ELSE "ok"

\* create_order, build_ships branch, lines 677-686.
BuildShipsChecks(p, k, src, qty) ==
    IF ~_get_structure(structures, src, "mine") \/ ~_get_structure(structures, src, "shipyard")
         THEN "System must have an existing mine and shipyard"
    ELSE IF qty < 1 THEN "quantity must be >= 1"
    ELSE IF qty > materials[src] - _committed_materials(orders, k, p, src)
         THEN "Only n materials available"
    ELSE "ok"

\* The Order row (with its OrderMaterialSource rows) a request persists.
OrderRow(p, k, type, src, tgt, qty, mss) ==
    [turn_id |-> k, player_index |-> p, order_type |-> type, source_system_id |-> src,
     target_system_id |-> tgt, quantity |-> qty, material_sources |-> mss]

\* An order id that no row carries.
MissingOrder == OrderRow(NULL, NULL, "none", NULL, NULL, NULL, <<>>)

\* The HTTP status code the handlers answer a detail with.
StatusCode(detail) ==
    IF detail = "ok" THEN 200
    ELSE IF detail \in {"Turn status not found", "Order not found"} THEN 404
    ELSE IF detail = "error" THEN 500
    ELSE 400

Response(op, p, k, detail) == [op |-> op, status_code |-> StatusCode(detail)]

\* The request is answered with an error and nothing is persisted.
Reject(op, p, k, detail) ==
    /\ last' = Response(op, p, k, detail)
    /\ UNCHANGED <<store, rpc, aside>>

\* The order is persisted and the request answered with it.
Accept(p, k, row) ==
    /\ orders' = BagAdd(orders, row)
    /\ order_seq' = order_seq + 1
    /\ last' = Response("create_order", p, k, "ok")
    /\ UNCHANGED <<aside, game, materials, owner, ships, structures, turns, pts, snapshots, rpc>>

\* POST /games/{game_id}/turns/{turn_id}/orders
CreateOrder(p, k, type, src) ==
    LET common == CommonChecks(p, k, type, src) IN
    IF common # "ok" THEN Reject("create_order", p, k, common)
    ELSE CASE type = "move_ships" ->
                \E tgt \in SystemIdInputs, qty \in QuantityInputs :
                    LET res == MoveChecks(p, k, src, tgt, qty) IN
                    IF res # "ok" THEN Reject("create_order", p, k, res)
                    ELSE Accept(p, k, OrderRow(p, k, type, src, tgt, qty, <<>>))
           [] type = "build_mine" ->
                LET site == MineSiteChecks(p, k, src) IN
                IF site # "ok" THEN Reject("create_order", p, k, site)
                ELSE \E mss \in MaterialSourceLists :
                        LET res == MineSourceChecks(p, k, src, mss) IN
                        IF res # "ok" THEN Reject("create_order", p, k, res)
                        ELSE Accept(p, k, OrderRow(p, k, type, src, NULL, NULL, mss))
           [] type = "build_shipyard" ->
                LET res == ShipyardChecks(p, k, src) IN
                IF res # "ok" THEN Reject("create_order", p, k, res)
                ELSE Accept(p, k, OrderRow(p, k, type, src, NULL, NULL, <<>>))
           [] type = "build_ships" ->
                \E qty \in QuantityInputs :
                    LET res == BuildShipsChecks(p, k, src, qty) IN
                    IF res # "ok" THEN Reject("create_order", p, k, res)
                    ELSE Accept(p, k, OrderRow(p, k, type, src, NULL, qty, <<>>))

\* The donor amounts and donor lists of the build_mine requests that are followed on their
\* own: amounts that make sums of 14, 15 and 16 with one or two donors.
MineAmounts == {4, 5, 6, 10}
MineRequestLists == SeqsUpTo([system_id : Systems, amount : MineAmounts], MaxDonors - 1)

\* POST /games/{game_id}/turns/{turn_id}/orders with order_type build_mine, lines 569-586 and
\* 611-647.
BuildMineRequest(p, k, src) ==
    LET common == CommonChecks(p, k, "build_mine", src)
        site == MineSiteChecks(p, k, src)
    IN  IF common # "ok" THEN Reject("create_order", p, k, common)
        ELSE IF site # "ok" THEN Reject("create_order", p, k, site)
        ELSE \E mss \in MineRequestLists :
                LET res == MineSourceChecks(p, k, src, mss) IN
                IF res # "ok" THEN Reject("create_order", p, k, res)
                ELSE Accept(p, k, OrderRow(p, k, "build_mine", src, NULL, NULL, mss))

\* DELETE /games/{game_id}/turns/{turn_id}/orders/{order_id}
DeleteOrder(p, k, o) ==
    IF ~_check_turn_not_submitted(k, p) THEN Reject("delete_order", p, k, "Turn already submitted")
    ELSE IF o \notin DOMAIN orders \/ ~(o.turn_id = k /\ o.player_index = p) THEN Reject("delete_order", p, k, "Order not found")
    ELSE /\ orders' = BagRemove(orders, o)
         /\ last' = Response("delete_order", p, k, "ok")
         /\ UNCHANGED <<aside, game, materials, owner, ships, structures, turns, pts, order_seq, snapshots, rpc>>

\* Mutant of SubmitTurn: no "Already submitted" answer, the row is written again.
SubmitTurnAgain(p, k) ==
    IF <<k, p>> \notin DOMAIN pts THEN Reject("submit_turn", p, k, "Turn status not found")
    ELSE /\ pts' = [pts EXCEPT ![<<k, p>>] = [submitted |-> TRUE, submitted_at |-> Now]]
         /\ last' = Response("submit_turn", p, k, "ok")
         /\ UNCHANGED <<aside, game, materials, owner, ships, structures, turns, orders, order_seq, snapshots, rpc>>

\* POST /games/{game_id}/turns/{turn_id}/submit
SubmitTurn(p, k) ==
    IF <<k, p>> \notin DOMAIN pts THEN Reject("submit_turn", p, k, "Turn status not found")
    ELSE IF pts[<<k, p>>].submitted THEN Reject("submit_turn", p, k, "Already submitted")
    ELSE /\ pts' = [pts EXCEPT ![<<k, p>>] = [submitted |-> TRUE, submitted_at |-> Now]]
         /\ last' = Response("submit_turn", p, k, "ok")
         /\ UNCHANGED <<aside, game, materials, owner, ships, structures, turns, orders, order_seq, snapshots, rpc>>

(***************************************************************************)
(* Turn resolver (turn_resolver.py).  The pipeline works on the rows of    *)
(* its own transaction: st = [materials, owner, ships, structures].        *)
(***************************************************************************)
RECURSIVE DebitSources(_, _)
\* Step 1, lines 115-119: sys.materials -= ms.amount for every material source.
DebitSources(mat, mss) ==
    IF mss = <<>> THEN mat
    ELSE DebitSources([mat EXCEPT ![Head(mss).system_id] = @ - Head(mss).amount], Tail(mss))

AddStructure(st, s, t, p) == [st EXCEPT ![<<s, t, p>>] = @ + 1]

AddShips(sh, s, p, n) ==
    LET row == _get_or_create_ship(sh, s, p) IN [row EXCEPT ![<<s, p>>] = @ + n]

\* Step 1 - build mines, one order.
BuildMine(st, o) ==
    [st EXCEPT !.structures = AddStructure(@, o.source_system_id, "mine", o.player_index),
               !.materials = DebitSources(@, o.material_sources)]

\* Step 2 - build shipyards, one order.
BuildShipyard(st, o) ==
    [st EXCEPT !.structures = AddStructure(@, o.source_system_id, "shipyard", o.player_index),
               !.materials = [@ EXCEPT ![o.source_system_id] = @ - SHIPYARD_COST]]

\* Mutant of BuildShips: the ship row is set to the quantity built.
BuildShips_set(st, o) ==
    [st EXCEPT !.materials = [@ EXCEPT ![o.source_system_id] = @ - o.quantity],
               !.ships = [_get_or_create_ship(@, o.source_system_id, o.player_index)
                            EXCEPT ![<<o.source_system_id, o.player_index>>] = o.quantity]]

\* Step 3 - build ships, one order.
BuildShips(st, o) ==
    [st EXCEPT !.materials = [@ EXCEPT ![o.source_system_id] = @ - o.quantity],
               !.ships = AddShips(@, o.source_system_id, o.player_index, o.quantity)]

\* Mutant of MoveShips: the ships arrive at the target and are not taken from the source.
MoveShips_copy(st, o) ==
    [st EXCEPT !.ships = AddShips(@, o.target_system_id, o.player_index, o.quantity)]

\* Step 4 - move ships, one order.
MoveShips(st, o) ==
    [st EXCEPT !.ships = AddShips(AddShips(@, o.source_system_id, o.player_index, 0 - o.quantity),
                                  o.target_system_id, o.player_index, o.quantity)]

ApplyOrder(st, o, type) ==
    IF o.order_type # type THEN st
    ELSE CASE type = "build_mine" -> BuildMine(st, o)
           [] type = "build_shipyard" -> BuildShipyard(st, o)
           [] type = "build_ships" -> BuildShips(st, o)
           [] type = "move_ships" -> MoveShips(st, o)

RECURSIVE OrderStep(_, _, _)
\* One "for o in orders" loop of steps 1-4.
OrderStep(st, os, type) ==
    IF os = <<>> THEN st ELSE OrderStep(ApplyOrder(st, Head(os), type), Tail(os), type)

\* Steps 1-4, lines 106-157.
ApplyOrders(st, os) ==
    OrderStep(OrderStep(OrderStep(OrderStep(st, os, "build_mine"), os, "build_shipyard"),
                        os, "build_ships"), os, "move_ships")

\* Lines 162-165 and 239-242: the players with a ship row of count > 0 at the system.
PlayersPresent(sh, s) == {p \in Sides : ShipCount(sh, s, p) > 0}

\* Lines 169-220: what the round loop can leave of the counts c.  A round takes from a side
\* at most the hits the other sides rolled, every ship of a side rolls a hit or not, and the
\* loop runs until at most one side has ships: so one side keeps any number of its ships,
\* none included, and every other side ends at 0.
CombatResults(c) ==
    UNION {{[p \in DOMAIN c |-> IF p = w THEN j ELSE 0] : j \in 0..c[w]} : w \in DOMAIN c}

\* Lines 222-233: the counts are written back and the zero-count rows of the system deleted.
WriteBack(sh, s, f) ==
    LET updated == [r \in DOMAIN sh |-> IF r[1] = s /\ r[2] \in DOMAIN f THEN f[r[2]] ELSE sh[r]]
    IN  [r \in {x \in DOMAIN updated : ~(x[1] = s /\ updated[x] = 0)} |-> updated[r]]

\* Mutant of CombatAt: no combat is run, the groups stay as the move step left them.
CombatAt_skipped(sh, s) == {sh}

\* Step 5 at one system, lines 161-233: the ship tables combat can leave.
CombatAt(sh, s) ==
    LET present == PlayersPresent(sh, s) IN
    IF Cardinality(present) < 2 THEN {sh}
    ELSE {WriteBack(sh, s, f) : f \in CombatResults([p \in present |-> sh[<<s, p>>]])}

RECURSIVE Combat(_, _)
\* Step 5 over the systems ss that are still to be visited, from the ship tables shs.
Combat(shs, ss) ==
    IF ss = {} THEN shs
    ELSE LET s == CHOOSE x \in ss : \A y \in ss : x <= y
         IN  Combat(UNION {CombatAt(sh, s) : sh \in shs}, ss \ {s})

\* Step 6 at one system, lines 239-246: the owner after the step.
NewOwner(own, sh, s) ==
    LET with_ships == PlayersPresent(sh, s) IN
    IF Cardinality(with_ships) = 1 THEN CHOOSE p \in with_ships : TRUE ELSE own[s]

\* Mutant of TransferStructures: the structures stay with the side they had.
TransferStructures_kept(st, own, newown) == st

\* Step 6, lines 247-251: the structures of a system whose owner changed go to the new owner.
TransferStructures(st, own, newown) ==
    [r \in DOMAIN st |->
        IF newown[r[1]] = own[r[1]] THEN st[r]
        ELSE IF r[3] = newown[r[1]]
             THEN st[<<r[1], r[2], 1>>] + st[<<r[1], r[2], 2>>] + st[<<r[1], r[2], NEUTRAL_PLAYER_INDEX>>]
             ELSE 0]

\* Step 6 - ownership changes, lines 237-251.
Ownership(st) ==
    LET newown == [s \in Systems |-> NewOwner(st.owner, st.ships, s)] IN
    [st EXCEPT !.owner = newown,
               !.structures = TransferStructures(@, st.owner, newown)]

\* Step 7 - mine production, lines 253-263.  The owner is read from the StarSystem object
\* step 6 has just written; the mine is looked up by a query, and the session does not flush
\* before a query (database.py, line 67: autoflush=False), so the query sees the structure
\* rows as of the flush of line 235: flushed, the rows before the transfers of step 6.
MineProduction(st, flushed) ==
    [st EXCEPT !.materials =
        [s \in Systems |->
            IF st.owner[s] # NULL /\ flushed[<<s, "mine", st.owner[s]>>] > 0
            THEN @[s] + mining_value[s] ELSE @[s]]]

\* Steps 1-7: the states the pipeline can reach for the orders os.
Pipeline(st, os) ==
    LET built == ApplyOrders(st, os) IN
    {MineProduction(Ownership([built EXCEPT !.ships = sh]), built.structures) :
        sh \in Combat({built.ships}, Systems)}

\* Mutant of Snapshot: every ship row is listed, whatever its count.
Snapshot_all_ships(st, k, os) ==
    [turn_id |-> k,
     systems |-> [s \in Systems |-> [materials |-> st.materials[s], owner_player_index |-> st.owner[s]]],
     ships |-> st.ships,
     structures |-> st.structures,
     orders |-> os]

\* _save_turn_snapshot, lines 23-97.
Snapshot(st, k, os) ==
    [turn_id |-> k,
     systems |-> [s \in Systems |-> [materials |-> st.materials[s], owner_player_index |-> st.owner[s]]],
     ships |-> [r \in {x \in DOMAIN st.ships : st.ships[x] > 0} |-> st.ships[r]],
     structures |-> st.structures,
     orders |-> os]

\* Line 104: the orders of the turn.
OrdersOf(k) ==
    SelectSeq(BagToSeq(orders), LAMBDA o : o.turn_id = k)

\* resolve_turn, lines 100-272: steps 1-9 up to the first commit.
resolve_turn(k) ==
    IF k \notin DOMAIN turns \/ k \in DOMAIN snapshots
    THEN \* turn is None at line 270, or the second snapshot of a turn violates the
         \* unique turn_id of turn_snapshots at line 272: the transaction is rolled back.
         Reject("resolve_turn", NULL, k, "error")
    ELSE \E st \in Pipeline([materials |-> materials, owner |-> owner, ships |-> ships,
                               structures |-> structures], OrdersOf(k)) :
            /\ materials' = st.materials
            /\ owner' = st.owner
            /\ ships' = st.ships
            /\ structures' = st.structures
            /\ snapshots' = snapshots @@ (k :> Snapshot(st, k, OrdersOf(k)))
            /\ turns' = [turns EXCEPT ![k] = [status |-> "resolved", resolved_at |-> Now]]
            /\ rpc' = [rpc EXCEPT ![k] = "committed1"]
            /\ last' = Response("resolve_turn", NULL, k, "ok")
            /\ UNCHANGED <<aside, game, pts, orders, order_seq>>

\* Mutant of resolve_turn_next: the status rows of every turn are written as not submitted.
resolve_turn_next_resets(k) ==
    /\ rpc[k] = "committed1"
    /\ turns' = turns @@ ((k + 1) :> [status |-> "active", resolved_at |-> NULL])
    /\ pts' = [r \in DOMAIN pts \cup ({k + 1} \X (1..Cardinality(Players)))
                 |-> [submitted |-> FALSE, submitted_at |-> NULL]]
    /\ rpc' = [rpc EXCEPT ![k] = "committed2"]
    /\ last' = Response("resolve_turn", NULL, k, "ok")
    /\ UNCHANGED <<aside, game, materials, owner, ships, structures, orders, order_seq, snapshots>>

\* resolve_turn, lines 274-288: the next turn and its status rows, second commit.
resolve_turn_next(k) ==
    /\ rpc[k] = "committed1"
    /\ turns' = turns @@ ((k + 1) :> [status |-> "active", resolved_at |-> NULL])
    /\ pts' = pts @@ [r \in {k + 1} \X (1..Cardinality(Players))
                       |-> [submitted |-> FALSE, submitted_at |-> NULL]]
    /\ rpc' = [rpc EXCEPT ![k] = "committed2"]
    /\ last' = Response("resolve_turn", NULL, k, "ok")
    /\ UNCHANGED <<aside, game, materials, owner, ships, structures, orders, order_seq, snapshots>>

\* Mutant of resolve_turn_admin: the victory check takes any owner of Founder's World, the
\* neutral index included.
resolve_turn_admin_any_owner(k) ==
    /\ rpc[k] = "committed2"
    /\ game' = IF owner[FW] # NULL
               THEN [status |-> "completed", current_turn |-> k + 1, winner_player_index |-> owner[FW]]
               ELSE [game EXCEPT !.current_turn = k + 1]
    /\ rpc' = [rpc EXCEPT ![k] = "done"]
    /\ last' = Response("resolve_turn", NULL, k, "ok")
    /\ UNCHANGED <<aside, materials, owner, ships, structures, turns, pts, orders, order_seq, snapshots>>

\* Mutant of resolve_turn_admin: current_turn is not advanced.
resolve_turn_admin_stays(k) ==
    /\ rpc[k] = "committed2"
    /\ game' = IF owner[FW] # NULL /\ owner[FW] # NEUTRAL_PLAYER_INDEX
               THEN [status |-> "completed", current_turn |-> k, winner_player_index |-> owner[FW]]
               ELSE game
    /\ rpc' = [rpc EXCEPT ![k] = "done"]
    /\ last' = Response("resolve_turn", NULL, k, "ok")
    /\ UNCHANGED <<aside, materials, owner, ships, structures, turns, pts, orders, order_seq, snapshots>>

\* resolve_turn, lines 290-301: current_turn and the victory check, commit of the admin store.
resolve_turn_admin(k) ==
    /\ rpc[k] = "committed2"
    /\ game' = IF owner[FW] # NULL /\ owner[FW] # NEUTRAL_PLAYER_INDEX
               THEN [status |-> "completed", current_turn |-> k + 1, winner_player_index |-> owner[FW]]
               ELSE [game EXCEPT !.current_turn = k + 1]
    /\ rpc' = [rpc EXCEPT ![k] = "done"]
    /\ last' = Response("resolve_turn", NULL, k, "ok")
    /\ UNCHANGED <<aside, materials, owner, ships, structures, turns, pts, orders, order_seq, snapshots>>

\* resolve_turn raises or its process stops between two commits: the rest never runs.
resolve_turn_fails(k) ==
    /\ rpc[k] \in {"committed1", "committed2"}
    /\ rpc' = [rpc EXCEPT ![k] = "failed"]
    /\ last' = Response("resolve_turn", NULL, k, "error")
    /\ UNCHANGED <<store, aside>>

\* POST /games/{game_id}/force-resolve (development only): the resolver is run on the
\* current turn of the game, whatever the submissions.
ForceResolve == resolve_turn(game.current_turn)

\* The requests of the players: create-order requests of the given types while no more than
\* n order rows are inserted, delete-order and submit requests.
CreateOrders(types, n) ==
    \E p \in Players, k \in TurnIds, type \in types, src \in SystemIdInputs :
        CreateOrder(p, k, type, src) /\ order_seq' <= n

DeleteOrders ==
    \E p \in Players, k \in TurnIds, o \in DOMAIN orders \cup {MissingOrder} : DeleteOrder(p, k, o)

SubmitTurns == \E p \in Players, k \in TurnIds : SubmitTurn(p, k)

\* The steps of the resolver, started on the current turn while it is below n.
ResolveSteps(n) ==
    \/ game.current_turn < n /\ ForceResolve
    \/ \E k \in TurnIds : resolve_turn_next(k)
    \/ \E k \in TurnIds : resolve_turn_admin(k)
    \/ \E k \in TurnIds : resolve_turn_fails(k)

Next ==
    \/ CreateOrders(OrderTypes \cup {"other"}, MaxOrders - 1)
    \/ DeleteOrders
    \/ SubmitTurns
    \/ ResolveSteps(MaxTurn - 1)

\* A game from its start.
Spec == Init /\ [][Next]_vars

(***************************************************************************)
(* The mid-game position scripts/create_test_game.py writes to the store,  *)
(* on the board of this model: every system holds MATERIALS, the homes     *)
(* hold HOME_FLEET ships, and the first player owns Bridge with            *)
(* EXPANSION_FLEET ships and no shipyard.  Bridge stands for an expansion  *)
(* system of mining value 4 of the script: one with a mine (Antares) or    *)
(* one without structures (Nunki).                                         *)
(***************************************************************************)
InitTestGame ==
    /\ game = [status |-> "active", current_turn |-> 1, winner_player_index |-> NULL]
    /\ materials = [s \in Systems |-> MATERIALS]
    /\ owner = [s \in Systems |-> IF s = FW THEN NULL ELSE IF s = Home[2] THEN 2 ELSE 1]
    /\ ships = (<<FW, NEUTRAL_PLAYER_INDEX>> :> FW_GARRISON) @@ (<<Home[1], 1>> :> HOME_FLEET)
               @@ (<<Home[2], 2>> :> HOME_FLEET) @@ (<<Bridge, 1>> :> EXPANSION_FLEET)
    /\ structures \in {[r \in Systems \X StructTypes \X Sides
                          |-> IF \/ r[3] \in Players /\ r[1] = Home[r[3]]
                                 \/ r = <<Bridge, "mine", 1>> /\ mined
                              THEN 1 ELSE 0] : mined \in BOOLEAN}
    /\ turns = (1 :> [status |-> "active", resolved_at |-> NULL])
    /\ pts = [r \in {1} \X Players |-> [submitted |-> FALSE, submitted_at |-> NULL]]
    /\ orders = << >>
    /\ order_seq = 0
    /\ snapshots = << >>
    /\ rpc = [k \in TurnIds |-> "idle"]
    /\ last = [op |-> "none", status_code |-> NULL]
    /\ combat = NoCombat
    /\ replay = NoReplay
    /\ regen = NoRegen
    /\ creates = [r \in Requests |-> NoCreate]
    /\ gen = NoGen
    /\ StartedLobby

\* The players of the test game place build orders and the turns are resolved.
NextBuild ==
    \/ CreateOrders({"build_mine", "build_shipyard", "build_ships"}, MaxOrders)
    \/ ResolveSteps(MaxTurn)

SpecBuild == InitTestGame /\ [][NextBuild]_vars

\* The players of a game from its start move ships and order mines, and the turns are
\* resolved.
NextExpand ==
    \/ CreateOrders({"move_ships", "build_mine"}, MaxOrders)
    \/ ResolveSteps(MaxTurn)

SpecExpand == Init /\ [][NextExpand]_vars

\* The players of the test game move ships and the first turn is resolved.
NextMove ==
    \/ CreateOrders({"move_ships"}, MaxOrders - 1)
    \/ ResolveSteps(MaxTurn - 1)

SpecMove == InitTestGame /\ [][NextMove]_vars

\* The players of the test game send create-order requests of every type.
NextTestGame == CreateOrders(OrderTypes \cup {"other"}, MaxOrders)

SpecTestGame == InitTestGame /\ [][NextTestGame]_vars

\* The build_mine requests of the players while no more than n order rows are inserted.
BuildMineRequests(n) ==
    \E p \in Players, k \in TurnIds, src \in SystemIdInputs :
        BuildMineRequest(p, k, src) /\ order_seq' <= n

\* The players of a game from its start move ships with their first order and then ask for
\* mines, and the turns are resolved.
NextMine ==
    \/ CreateOrders({"move_ships"}, MaxOrders - 1)
    \/ BuildMineRequests(MaxOrders)
    \/ ResolveSteps(MaxTurn)

SpecMine == Init /\ [][NextMine]_vars

\* The players of the test game move ships out of their home systems and order shipyards on
\* Bridge, and the turns are resolved.
SettleOrders(n) ==
    \E p \in Players, k \in TurnIds :
        /\ \/ CreateOrder(p, k, "move_ships", Home[p])
           \/ CreateOrder(p, k, "build_shipyard", Bridge)
        /\ order_seq' <= n

NextSettle ==
    \/ SettleOrders(MaxOrders)
    \/ ResolveSteps(MaxTurn)

SpecSettle == InitTestGame /\ [][NextSettle]_vars

\* The players of the test game build ships at their home systems and move ships out of
\* them, and the first turn is resolved.
FleetOrders(n) ==
    \E p \in Players, k \in TurnIds :
        /\ \/ CreateOrder(p, k, "build_ships", Home[p])
           \/ CreateOrder(p, k, "move_ships", Home[p])
        /\ order_seq' <= n

NextFleet ==
    \/ FleetOrders(MaxOrders)
    \/ ResolveSteps(MaxTurn - 1)

SpecFleet == InitTestGame /\ [][NextFleet]_vars

\* The test game after its first turn, in which the first player sent ships from Bridge to
\* Founder's World and they beat the garrison: the turn is resolved with its snapshot, the
\* second turn is open, and the victory check has completed the game for the first player.
WonGames ==
    UNION {{[board |-> st, order |-> o] : st \in {x \in Pipeline(b, <<o>>) : x.owner[FW] = 1}} :
              b \in {[materials |-> [s \in Systems |-> MATERIALS],
                      owner |-> [s \in Systems |-> IF s = FW THEN NULL ELSE IF s = Home[2] THEN 2 ELSE 1],
                      ships |-> (<<FW, NEUTRAL_PLAYER_INDEX>> :> FW_GARRISON) @@ (<<Home[1], 1>> :> HOME_FLEET)
                                @@ (<<Home[2], 2>> :> HOME_FLEET) @@ (<<Bridge, 1>> :> EXPANSION_FLEET),
                      structures |-> [r \in Systems \X StructTypes \X Sides
                                        |-> IF \/ r[3] \in Players /\ r[1] = Home[r[3]]
                                               \/ r = <<Bridge, "mine", 1>> /\ mined
                                            THEN 1 ELSE 0]] : mined \in BOOLEAN},
              o \in {OrderRow(1, 1, "move_ships", Bridge, FW, qty, <<>>) : qty \in 1..MaxQty}}

InitWon ==
    \E w \in WonGames :
        /\ game = [status |-> "completed", current_turn |-> 2, winner_player_index |-> 1]
        /\ materials = w.board.materials
        /\ owner = w.board.owner
        /\ ships = w.board.ships
        /\ structures = w.board.structures
        /\ turns = (1 :> [status |-> "resolved", resolved_at |-> 1])
                   @@ (2 :> [status |-> "active", resolved_at |-> NULL])
        /\ pts = [r \in {1, 2} \X Players |-> [submitted |-> FALSE, submitted_at |-> NULL]]
        /\ orders = BagAdd(<< >>, w.order)
        /\ order_seq = 1
        /\ snapshots = (1 :> Snapshot(w.board, 1, <<w.order>>))
        /\ rpc = [k \in TurnIds |-> IF k = 1 THEN "done" ELSE "idle"]
        /\ last = Response("resolve_turn", NULL, 1, "ok")
        /\ combat = NoCombat
        /\ replay = NoReplay
        /\ regen = NoRegen
        /\ creates = [r \in Requests |-> NoCreate]
        /\ gen = NoGen
        /\ StartedLobby

\* The completed game goes on: the second player moves ships out of its home system and out
\* of Bridge, which lies next to Founder's World; the orders are for the current turn, and
\* the turns are resolved.
VictoryOrders(n) ==
    /\ \/ CreateOrder(2, game.current_turn, "move_ships", Home[2])
       \/ CreateOrder(2, game.current_turn, "move_ships", Bridge)
    /\ order_seq' <= n

NextVictory ==
    \/ VictoryOrders(MaxOrders + 1)
    \/ ResolveSteps(MaxTurn + 1)

SpecVictory == InitWon /\ [][NextVictory]_vars

\* create_order in two steps, for requests that are served at the same time (sync handlers
\* run in the thread pool, each with a session of its own on a store that reads committed
\* rows; no row is locked).

\* The checks have passed: the request holds the row it is going to insert.
Hold(r, row) ==
    /\ creates' = [creates EXCEPT ![r] = [pc |-> "checked", row |-> row]]
    /\ UNCHANGED <<store, rpc, last, combat, replay, lobby, gen, regen>>

\* create_order, lines 569-605 (move_ships), 611-638 (build_mine), 649-668 (build_shipyard)
\* and 675-695 (build_ships): the checks, which read the committed rows.
CreateCheck(r, p, k, type, src) ==
    /\ creates[r].pc = "idle"
    /\ LET common == CommonChecks(p, k, type, src) IN
       IF common # "ok" THEN Reject("create_order", p, k, common)
       ELSE CASE type = "move_ships" ->
                   \E tgt \in SystemIdInputs, qty \in QuantityInputs :
                       LET res == MoveChecks(p, k, src, tgt, qty) IN
                       IF res # "ok" THEN Reject("create_order", p, k, res)
                       ELSE Hold(r, OrderRow(p, k, type, src, tgt, qty, <<>>))
              [] type = "build_mine" ->
                   LET site == MineSiteChecks(p, k, src) IN
                   IF site # "ok" THEN Reject("create_order", p, k, site)
                   ELSE \E mss \in MaterialSourceLists :
                           LET res == MineSourceChecks(p, k, src, mss) IN
                           IF res # "ok" THEN Reject("create_order", p, k, res)
                           ELSE Hold(r, OrderRow(p, k, type, src, NULL, NULL, mss))
              [] type = "build_shipyard" ->
                   LET res == ShipyardChecks(p, k, src) IN
                   IF res # "ok" THEN Reject("create_order", p, k, res)
                   ELSE Hold(r, OrderRow(p, k, type, src, NULL, NULL, <<>>))
              [] type = "build_ships" ->
                   \E qty \in QuantityInputs :
                       LET res == BuildShipsChecks(p, k, src, qty) IN
                       IF res # "ok" THEN Reject("create_order", p, k, res)
                       ELSE Hold(r, OrderRow(p, k, type, src, NULL, qty, <<>>))

\* create_order, lines 607-609, 640-647, 670-673 and 697-700: the row is added and
\* committed, and the request is answered.
CreateInsert(r) ==
    /\ creates[r].pc = "checked"
    /\ orders' = BagAdd(orders, creates[r].row)
    /\ order_seq' = order_seq + 1
    /\ last' = Response("create_order", creates[r].row.player_index, creates[r].row.turn_id, "ok")
    /\ creates' = [creates EXCEPT ![r] = NoCreate]
    /\ UNCHANGED <<game, materials, owner, ships, structures, turns, pts, snapshots, rpc,
                   combat, replay, lobby, gen, regen>>

\* The players of a game from its start send create-order requests for the current turn,
\* MaxRequests of them at a time, while no more than MaxOrders rows are inserted.
NextRace ==
    \/ \E r \in Requests, p \in Players, type \in OrderTypes, src \in SystemIdInputs :
            CreateCheck(r, p, game.current_turn, type, src)
    \/ \E r \in Requests : CreateInsert(r) /\ order_seq' <= MaxOrders

SpecRace == Init /\ [][NextRace]_vars

(***************************************************************************)
(* The round loop of step 5 (turn_resolver.py, lines 169-220), one round   *)
(* at a time, on counts drawn from small sets.                             *)
(***************************************************************************)
Min(a, b) == IF a <= b THEN a ELSE b

RECURSIVE Sum(_, _)
\* The sum of f over the set S.
Sum(f, S) ==
    IF S = {} THEN 0 ELSE LET x == CHOOSE y \in S : TRUE IN f[x] + Sum(f, S \ {x})

\* Mutant of Hits: no ship ever hits.
Hits_none(current, active) == {[p \in active |-> 0]}

\* Mutant of Hits: a side rolls hits without regard to its ships.
Hits_any(current, active) == [active -> 0..MaxFleet]

\* Lines 175-177: each ship of an active side rolls a hit or not.
Hits(current, active) ==
    {h \in [active -> 0..MaxFleet] : \A p \in active : h[p] <= current[p]}

\* Lines 189-197: every hit of the attacker falls on one of its opponents; the pool lists
\* them by their ships at the start of the round and is not depleted.
Allocations(hits, active, attacker) ==
    {al \in [active \ {attacker} -> 0..hits[attacker]] :
        Sum(al, active \ {attacker}) = hits[attacker]}

\* Lines 181-197: the losses of the round.
RoundLosses(current, active, hits) ==
    IF Cardinality(active) = 2
    THEN {[p \in active |-> LET q == CHOOSE x \in active : x # p
                            IN  Min(hits[q], current[p])]}
    ELSE LET all == UNION {Allocations(hits, active, a) : a \in active}
             choices == {f \in [active -> all] : \A a \in active : f[a] \in Allocations(hits, active, a)}
         IN  {[t \in active |-> Sum([a \in active \ {t} |-> f[a][t]], active \ {t})] : f \in choices}

\* Mutant of ShipsAfter: the losses are subtracted without the floor of 0.
ShipsAfter_uncapped(count, losses) == count - losses

\* Line 200: max(0, current[p] - losses.get(p, 0)).
ShipsAfter(count, losses) == IF count - losses > 0 THEN count - losses ELSE 0

\* Lines 169-171: the locals of the loop for the counts c of the ship rows at the system.
StartCombat(c) ==
    [current |-> c, active |-> {p \in DOMAIN c : c[p] > 0}, round_num |-> 1, log |-> << >>]

\* Lines 173-220: one pass of the while loop in which the sides roll the hits given.
Round(hits) ==
    /\ Cardinality(combat.active) > 1
    /\ \E losses \in RoundLosses(combat.current, combat.active, hits) :
            LET after == [p \in DOMAIN combat.current |->
                             IF p \in combat.active
                             THEN ShipsAfter(combat.current[p], losses[p])
                             ELSE combat.current[p]]
                combatants == [p \in combat.active |->
                                  [ships_before |-> combat.current[p],
                                   hits_scored |-> hits[p],
                                   ships_after |-> after[p]]]
            IN  combat' = [current |-> after,
                           active |-> {p \in combat.active : after[p] > 0},
                           round_num |-> combat.round_num + 1,
                           log |-> Append(combat.log, [round_number |-> combat.round_num,
                                                       combatants |-> combatants])]
    /\ UNCHANGED <<store, rpc, last, replay, lobby, gen, regen, creates>>

\* Lines 173-220: one pass of the while loop.
CombatRound ==
    /\ combat.round_num <= MaxRounds
    /\ \E hits \in Hits(combat.current, combat.active) : Round(hits)

\* Lines 162-171: a system with ship rows of count > 0 of two or more sides, in a game from
\* its start.
InitCombat ==
    /\ game = [status |-> "active", current_turn |-> 1, winner_player_index |-> NULL]
    /\ materials = [s \in Systems |-> 0]
    /\ owner = [s \in Systems |-> IF \E p \in Players : s = Home[p]
                                   THEN CHOOSE p \in Players : s = Home[p]
                                   ELSE NULL]
    /\ ships = [r \in {<<Home[p], p>> : p \in Players} \cup {<<FW, NEUTRAL_PLAYER_INDEX>>}
                 |-> IF r[1] = FW THEN FW_GARRISON ELSE 1]
    /\ structures = [r \in Systems \X StructTypes \X Sides
                      |-> IF r[3] \in Players /\ r[1] = Home[r[3]] THEN 1 ELSE 0]
    /\ turns = (1 :> [status |-> "active", resolved_at |-> NULL])
    /\ pts = [r \in {1} \X Players |-> [submitted |-> FALSE, submitted_at |-> NULL]]
    /\ orders = << >>
    /\ order_seq = 0
    /\ snapshots = << >>
    /\ rpc = [k \in TurnIds |-> "idle"]
    /\ last = [op |-> "none", status_code |-> NULL]
    /\ combat \in {StartCombat(c) :
                      c \in UNION {[S -> 1..MaxFleet] : S \in {T \in SUBSET Sides : Cardinality(T) >= 2}}}
    /\ replay = NoReplay
    /\ regen = NoRegen
    /\ creates = [r \in Requests |-> NoCreate]
    /\ gen = NoGen
    /\ StartedLobby

NextCombat == CombatRound

\* One combat, round by round.
SpecCombat == InitCombat /\ [][NextCombat]_vars

\* A pass of the while loop in which no ship of any side hits; MaxRounds such passes are
\* followed.
MissRound ==
    /\ combat.round_num <= MaxRounds
    /\ Round([p \in combat.active |-> 0])

\* A pass of the while loop in which at least one ship hits.  The guard on the round number
\* is never the reason why such a pass is not made: every such pass costs a ship.
HitRound ==
    /\ combat.round_num <= MaxRounds + Cardinality(Sides) * MaxFleet
    /\ \E hits \in Hits(combat.current, combat.active) :
          /\ \E p \in combat.active : hits[p] > 0
          /\ Round(hits)

NextCombatFair == MissRound \/ HitRound

\* One combat, round by round, with draws that do not fail for ever: while the loop runs, a
\* pass in which some ship hits (chance of at least 1/2 in every pass, line 177) comes.
SpecCombatFair == InitCombat /\ [][NextCombatFair]_vars /\ WF_vars(HitRound)

\* Lines 161-171 entered again for the same turn and system: resolve_turn is run once more
\* on the ship rows the finished run started from (same game, same seed, same turn_id). The
\* draws of both runs come from the generator of the process (lines 177 and 196).
ReplayCombat ==
    /\ ~replay.done
    /\ Cardinality(combat.active) <= 1
    /\ replay' = [done |-> TRUE, current |-> combat.current, log |-> combat.log]
    /\ combat' = StartCombat([p \in DOMAIN combat.current |->
                                 combat.log[1].combatants[p].ships_before])
    /\ UNCHANGED <<store, rpc, last, lobby, gen, regen, creates>>

NextReplay == CombatRound \/ ReplayCombat

\* The replayed combats are those of two sides.
InitReplay == InitCombat /\ Cardinality(combat.active) = 2

SpecReplay == InitReplay /\ [][NextReplay]_vars

(***************************************************************************)
(* The lobby (main.py): join_game and the start of the game.               *)
(***************************************************************************)
\* _save_map_to_game_db, lines 109-164: the JumpLine, Ship, Structure, Turn and StarSystem
\* rows are deleted and written from map_data (the board of this model, systems named by
\* their position in map_data), then turn 1 and a status row per player are added. The
\* PlayerTurnStatus rows are not deleted: every run adds one row per player.
_save_map_to_game_db ==
    /\ materials' = [s \in Systems |-> 0]
    /\ owner' = [s \in Systems |-> IF \E p \in Players : s = Home[p]
                                    THEN CHOOSE p \in Players : s = Home[p]
                                    ELSE NULL]
    /\ ships' = [r \in {<<Home[p], p>> : p \in Players} \cup {<<FW, NEUTRAL_PLAYER_INDEX>>}
                  |-> IF r[1] = FW THEN FW_GARRISON ELSE 1]
    /\ structures' = [r \in Systems \X StructTypes \X Sides
                       |-> IF r[3] \in Players /\ r[1] = Home[r[3]] THEN 1 ELSE 0]
    /\ turns' = (1 :> [status |-> "active", resolved_at |-> NULL])
    /\ pts' = [r \in {1} \X (1..num_players) |-> [submitted |-> FALSE, submitted_at |-> NULL]]
    /\ map_saves' = [count |-> map_saves.count + 1,
                     status_rows |-> [p \in Players |-> map_saves.status_rows[p] + 1]]

\* _generate_and_save_map, lines 167-175.
_generate_and_save_map ==
    /\ _save_map_to_game_db
    /\ game' = [game EXCEPT !.status = "active", !.current_turn = 1]

\* join_game, lines 251-266: the game, the membership and the member count are read.
JoinCheck(u) ==
    /\ joins[u].pc = "idle"
    /\ IF game.status # "open"
       THEN /\ last' = Response("join_game", u, NULL, "Game is not open for joining")
            /\ UNCHANGED joins
       ELSE IF \E i \in DOMAIN game_players : game_players[i].user_id = u
       THEN /\ last' = Response("join_game", u, NULL, "Already joined this game")
            /\ UNCHANGED joins
       ELSE IF Len(game_players) >= num_players
       THEN /\ last' = Response("join_game", u, NULL, "Game is full")
            /\ UNCHANGED joins
       ELSE /\ joins' = [joins EXCEPT ![u] = [pc |-> "checked", player_count |-> Len(game_players)]]
            /\ UNCHANGED last
    /\ UNCHANGED <<store, rpc, combat, replay, gen, regen, creates, game_players, map_saves>>

\* join_game, lines 268-271: the GamePlayer row is added and committed.
JoinInsert(u) ==
    /\ joins[u].pc = "checked"
    /\ game_players' = Append(game_players,
                              [user_id |-> u, player_index |-> joins[u].player_count + 1])
    /\ joins' = [joins EXCEPT ![u].pc = "inserted"]
    /\ UNCHANGED <<store, rpc, last, combat, replay, gen, regen, creates, map_saves>>

\* join_game, lines 273-278: the members are counted again and a full game is started.
JoinFinish(u) ==
    /\ joins[u].pc = "inserted"
    /\ IF Len(game_players) >= num_players
       THEN _generate_and_save_map
       ELSE UNCHANGED <<game, materials, owner, ships, structures, turns, pts, map_saves>>
    /\ joins' = [joins EXCEPT ![u] = NoJoin]
    /\ last' = Response("join_game", u, NULL, "ok")
    /\ UNCHANGED <<orders, order_seq, snapshots, rpc, combat, replay, gen, regen, creates, game_players>>

\* create_game, lines 178-207, has returned: the game is open, its database is empty and its
\* creator is player 1.
InitLobby ==
    /\ game = [status |-> "open", current_turn |-> NULL, winner_player_index |-> NULL]
    /\ materials = << >>
    /\ owner = << >>
    /\ ships = << >>
    /\ structures = [r \in Systems \X StructTypes \X Sides |-> 0]
    /\ turns = << >>
    /\ pts = << >>
    /\ orders = << >>
    /\ order_seq = 0
    /\ snapshots = << >>
    /\ rpc = [k \in TurnIds |-> "idle"]
    /\ last = [op |-> "none", status_code |-> NULL]
    /\ combat = NoCombat
    /\ replay = NoReplay
    /\ regen = NoRegen
    /\ creates = [r \in Requests |-> NoCreate]
    /\ gen = NoGen
    /\ game_players = <<[user_id |-> 1, player_index |-> 1]>>
    /\ joins = [u \in Users |-> NoJoin]
    /\ map_saves = [count |-> 0, status_rows |-> [p \in Players |-> 0]]

NextJoin ==
    \E u \in Users : JoinCheck(u) \/ JoinInsert(u) \/ JoinFinish(u)

SpecJoin == InitLobby /\ [][NextJoin]_vars

(***************************************************************************)
(* The map generator (map_generator.py). A run of generate_map is followed *)
(* loop by loop; its draws come from the generator seeded in line 323.     *)
(***************************************************************************)
\* random.Random(seed): the state of the seeded generator after a draw. The generator is
\* stood for by a small congruential one; what is used of it is that the seed fixes the
\* stream of draws.
RngNext(x) == (75 * x + 74) % 65537

\* The number a draw yields, below n.
RngBelow(x, n) == (RngNext(x) \div 16) % n

\* rng.randint(a, b)
randint(x, a, b) == [rng |-> RngNext(x), val |-> a + RngBelow(x, b - a + 1)]

\* rng.choice(seq)
choice(x, seq) == [rng |-> RngNext(x), val |-> seq[RngBelow(x, Len(seq)) + 1]]

\* rng.shuffle(seq): the positions i (counted from 0) from the last one down to 1 are swapped
\* with a drawn position at or below them.
RECURSIVE shuffle(_, _, _)
shuffle(x, seq, i) ==
    IF i < 1 THEN [rng |-> x, val |-> seq]
    ELSE LET j == RngBelow(x, i + 1)
             swapped == [seq EXCEPT ![i + 1] = seq[j + 1], ![j + 1] = seq[i + 1]]
         IN  shuffle(RngNext(x), swapped, i - 1)

Max(a, b) == IF a >= b THEN a ELSE b

\* The members of a set of system ids in ascending order.
RECURSIVE Sorted(_)
Sorted(S) ==
    IF S = {} THEN << >>
    ELSE LET m == CHOOSE a \in S : \A b \in S : a <= b IN <<m>> \o Sorted(S \ {m})

\* [(a, b) for a in as for b in bs]
Pairs(as, bs) ==
    [k \in 1..(Len(as) * Len(bs)) |-> <<as[((k - 1) \div Len(bs)) + 1], bs[((k - 1) % Len(bs)) + 1]>>]

\* G.degree(v), G.has_edge(a, b): the graph is its set of edges {a, b}.
Degree(E, v) == Cardinality({e \in E : v \in e})
has_edge(E, a, b) == {a, b} \in E

\* [s for s in ids if G.degree(s) < 4]
Open(E, ids) == SelectSeq(ids, LAMBDA v : Degree(E, v) < 4)

\* nx.node_connected_component of the subgraph on nodes.
RECURSIVE Reach(_, _, _)
Reach(E, nodes, seen) ==
    LET more == {w \in nodes \ seen : \E v \in seen : {v, w} \in E}
    IN  IF more = {} THEN seen ELSE Reach(E, nodes, seen \cup more)
node_connected_component(E, nodes, v) == Reach(E, nodes, {v})

\* The system ids of a cluster, of all clusters, and G.nodes.
IdsOf(c) == {c.system_ids[k] : k \in DOMAIN c.system_ids}
ClusterNodes(clusters) == UNION {IdsOf(clusters[c]) : c \in DOMAIN clusters}
Nodes(clusters) == {0} \cup ClusterNodes(clusters)

\* _build_clusters, lines 32-50, for num_neutral neutral clusters.
_build_clusters(n, num_neutral) ==
    [c \in 1..(n + num_neutral) |->
        [id |-> c - 1,
         is_home_cluster |-> c <= n,
         player_index |-> IF c <= n THEN c ELSE NULL,
         system_ids |-> << >>]]

\* _distribute_systems, lines 63-71: three ids per player cluster, then one per neutral
\* cluster, handed out in order from 1.
Reserve(clusters, n) ==
    [c \in DOMAIN clusters |->
        [clusters[c] EXCEPT !.system_ids =
            IF c <= n THEN <<3 * (c - 1) + 1, 3 * (c - 1) + 2, 3 * (c - 1) + 3>>
            ELSE <<3 * n + (c - n)>>]]

\* Mutant of Random: the generator takes its state from the generator of the process.
Random_shared(seed, global) == (seed + global) % 65537

\* random.Random(seed), line 323: a generator of its own, whose state the seed fixes; the
\* state of the generator of the process plays no part.
Random(seed, global) == seed

\* generate_map, line 323: the generator is seeded; nothing is drawn or built yet.
StartGen(n, seed) ==
    [phase |-> "clusters", num_players |-> n, seed |-> seed, rng |-> Random(seed, regen.global),
     num_systems |-> 0, clusters |-> << >>, edges |-> {}, ring |-> << >>, i |-> 1,
     fallback |-> FALSE, repaired |-> FALSE,
     layout |-> << >>, names |-> << >>, mining_values |-> << >>]

\* generate_map, lines 325-327: the number of systems is drawn, the clusters are built and
\* the reserved systems are handed out.
GenClusters ==
    /\ gen.phase = "clusters"
    /\ LET n == gen.num_players
           d1 == randint(gen.rng, 4 * n, 7 * n)
           num_systems == d1.val + 1
           d2 == randint(d1.rng, 1, Max(1, (n \div 2) + 1))
           num_neutral == Max(1, d2.val)
           clusters == Reserve(_build_clusters(n, num_neutral), n)
           reserved == 1 + 3 * n + num_neutral
       IN  gen' = [gen EXCEPT !.phase = IF num_systems > reserved THEN "distribute" ELSE "intra",
                              !.rng = d2.rng, !.num_systems = num_systems,
                              !.clusters = clusters, !.i = 1]
    /\ UNCHANGED <<store, rpc, last, combat, replay, lobby, regen, creates>>

\* _distribute_systems, lines 73-78: the next remaining id goes to a drawn cluster.
GenDistribute ==
    /\ gen.phase = "distribute"
    /\ LET next_id == Cardinality(Nodes(gen.clusters))
           d == choice(gen.rng, [c \in DOMAIN gen.clusters |-> c])
       IN  gen' = [gen EXCEPT !.phase = IF next_id + 1 < gen.num_systems THEN "distribute"
                                                                          ELSE "intra",
                              !.rng = d.rng,
                              !.clusters[d.val].system_ids = Append(@, next_id)]
    /\ UNCHANGED <<store, rpc, last, combat, replay, lobby, regen, creates>>

\* _build_graph, lines 99-110: up to k more edges inside the cluster where the degrees allow.
RECURSIVE ExtraEdges(_, _, _, _)
ExtraEdges(x, E, ids, k) ==
    IF k <= 0 THEN [rng |-> x, val |-> E]
    ELSE LET candidates == SelectSeq(Pairs(ids, ids),
                                     LAMBDA pr : /\ pr[1] < pr[2]
                                                 /\ ~has_edge(E, pr[1], pr[2])
                                                 /\ Degree(E, pr[1]) < 4
                                                 /\ Degree(E, pr[2]) < 4)
         IN  IF candidates = << >> THEN [rng |-> x, val |-> E]
             ELSE LET d == choice(x, candidates)
                  IN  ExtraEdges(d.rng, E \cup {{d.val[1], d.val[2]}}, ids, k - 1)

\* _build_graph, lines 91-110: the edges inside cluster gen.i; after the last cluster the
\* player clusters are shuffled (line 114).
GenIntra ==
    /\ gen.phase = "intra"
    /\ LET ids0 == gen.clusters[gen.i].system_ids
           len == Len(ids0)
           sh == shuffle(gen.rng, ids0, len - 1)
           ids == sh.val
           path == gen.edges \cup {{ids[k], ids[k + 1]} : k \in 1..(len - 1)}
           ex == ExtraEdges(sh.rng, path, ids, Min(2, ((len * (len - 1)) \div 2) - (len - 1)))
           built == IF len < 2 THEN [rng |-> gen.rng, val |-> gen.edges] ELSE ex
           ring == shuffle(built.rng, [c \in 1..gen.num_players |-> c], gen.num_players - 1)
       IN  IF gen.i < Len(gen.clusters)
           THEN gen' = [gen EXCEPT !.rng = built.rng, !.edges = built.val, !.i = gen.i + 1]
           ELSE gen' = [gen EXCEPT !.phase = "ring", !.rng = ring.rng, !.edges = built.val,
                                   !.ring = ring.val, !.i = 1]
    /\ UNCHANGED <<store, rpc, last, combat, replay, lobby, regen, creates>>

\* Mutant of RingSuccessor: the last cluster of the ring is joined to the one before it.
RingSuccessor_open(i, n) == IF i = n THEN n - 1 ELSE i + 1

\* _build_graph, line 120: the place after place i of the ring, places counted from 1.
RingSuccessor(i, n) == (i % n) + 1

\* An edge between a drawn system of as and a drawn system of bs, both of degree < 4, if
\* there are such systems (lines 121-126 and 135-140).
LinkEdge(x, E, as, bs) ==
    IF Open(E, as) # << >> /\ Open(E, bs) # << >>
    THEN LET a == choice(x, Open(E, as))
             b == choice(a.rng, Open(E, bs))
         IN  [rng |-> b.rng, val |-> E \cup {{a.val, b.val}}]
    ELSE [rng |-> x, val |-> E]

\* _build_graph, lines 117-126: the ring edge from place gen.i of the ring.
GenRing ==
    /\ gen.phase = "ring"
    /\ LET n == gen.num_players
           c1 == gen.clusters[gen.ring[gen.i]]
           c2 == gen.clusters[gen.ring[RingSuccessor(gen.i, n)]]
           e == LinkEdge(gen.rng, gen.edges, c1.system_ids, c2.system_ids)
       IN  gen' = [gen EXCEPT !.rng = e.rng, !.edges = e.val,
                              !.phase = IF gen.i < n THEN "ring" ELSE "bridge",
                              !.i = IF gen.i < n THEN gen.i + 1 ELSE 1]
    /\ UNCHANGED <<store, rpc, last, combat, replay, lobby, regen, creates>>

\* Mutant of BridgePair: the neutral cluster is joined twice to the same player cluster.
BridgePair_single(i, n) == <<(i % n) + 1, (i % n) + 1>>

\* _build_graph, lines 130-131: the places of the ring that neutral cluster i (counted from
\* 0) bridges.
BridgePair(i, n) == <<(i % n) + 1, ((i + 1) % n) + 1>>

\* _build_graph, lines 129-140: the bridges of neutral cluster gen.i.
GenBridge ==
    /\ gen.phase = "bridge"
    /\ LET n == gen.num_players
           neutral == gen.clusters[n + gen.i]
           pair == BridgePair(gen.i - 1, n)
           e1 == LinkEdge(gen.rng, gen.edges, neutral.system_ids,
                          gen.clusters[gen.ring[pair[1]]].system_ids)
           e2 == LinkEdge(e1.rng, e1.val, neutral.system_ids,
                          gen.clusters[gen.ring[pair[2]]].system_ids)
           last_one == n + gen.i = Len(gen.clusters)
       IN  gen' = [gen EXCEPT !.rng = e2.rng, !.edges = e2.val,
                              !.phase = IF last_one THEN "founders" ELSE "bridge",
                              !.i = IF last_one THEN 1 ELSE gen.i + 1]
    /\ UNCHANGED <<store, rpc, last, combat, replay, lobby, regen, creates>>

\* Mutant of FoundersFull: Founder's World is never found full.
FoundersFull_never(E) == FALSE

\* _build_graph, line 144: Founder's World has its four jump lines.
FoundersFull(E) == Degree(E, 0) >= 4

\* _build_graph, lines 143-155: Founder's World is joined to a system of cluster gen.i, until
\* it is full or the clusters are through; then it is given a jump line if it has none.
GenFounders ==
    /\ gen.phase = "founders"
    /\ LET candidates == Open(gen.edges, gen.clusters[gen.i].system_ids)
           d == choice(gen.rng, candidates)
           linked == IF candidates # << >>
                     THEN [rng |-> d.rng, val |-> gen.edges \cup {{0, d.val}}]
                     ELSE [rng |-> gen.rng, val |-> gen.edges]
           all_systems == Open(linked.val, Sorted(ClusterNodes(gen.clusters)))
           f == choice(linked.rng, all_systems)
           forced == IF Degree(linked.val, 0) = 0 /\ all_systems # << >>
                     THEN [rng |-> f.rng, val |-> linked.val \cup {{0, f.val}}]
                     ELSE linked
       IN  IF FoundersFull(gen.edges)
           THEN gen' = [gen EXCEPT !.phase = "connect", !.i = 1]
           ELSE IF gen.i < Len(gen.clusters)
           THEN gen' = [gen EXCEPT !.rng = linked.rng, !.edges = linked.val, !.i = gen.i + 1]
           ELSE gen' = [gen EXCEPT !.rng = forced.rng, !.edges = forced.val,
                                   !.phase = "connect", !.i = 1]
    /\ UNCHANGED <<store, rpc, last, combat, replay, lobby, regen, creates>>

\* nx.connected_components(G)[0] and [1]: the component of the first node and that of the
\* first node outside it.
FirstComponent(E, nodes) == node_connected_component(E, nodes, Sorted(nodes)[1])
SecondComponent(E, nodes) ==
    node_connected_component(E, nodes, Sorted(nodes \ FirstComponent(E, nodes))[1])

\* _build_graph, lines 158-173: one pass of the connectivity loop; a connected graph is
\* returned.
GenConnect ==
    /\ gen.phase = "connect"
    /\ LET nodes == Nodes(gen.clusters)
           comp_a == FirstComponent(gen.edges, nodes)
       IN  IF comp_a = nodes
           THEN gen' = [gen EXCEPT !.phase = "safe", !.i = 1]
           ELSE LET comp_b == SecondComponent(gen.edges, nodes)
                    candidates_a == Open(gen.edges, Sorted(comp_a))
                    candidates_b == Open(gen.edges, Sorted(comp_b))
                    degrees_allow == candidates_a # << >> /\ candidates_b # << >>
                    a == choice(gen.rng, IF degrees_allow THEN candidates_a ELSE Sorted(comp_a))
                    b == choice(a.rng, IF degrees_allow THEN candidates_b ELSE Sorted(comp_b))
                IN  gen' = [gen EXCEPT !.rng = b.rng, !.edges = @ \cup {{a.val, b.val}},
                                       !.fallback = @ \/ ~degrees_allow]
    /\ UNCHANGED <<store, rpc, last, combat, replay, lobby, regen, creates>>

\* _ensure_safe_paths, lines 198-202: the player's own systems, the neutral ones and
\* Founder's World.
SafeNodes(clusters, p) ==
    {0} \cup UNION {IdsOf(clusters[c]) :
                       c \in {d \in DOMAIN clusters : \/ ~clusters[d].is_home_cluster
                                                      \/ clusters[d].player_index = p}}

\* _ensure_safe_paths, line 194: the home system is the first system of the cluster.
HomeOf(clusters, p) == clusters[p].system_ids[1]

\* nx.has_path(safe_sub, home_id, 0)
HasSafePath(E, clusters, p) ==
    0 \in node_connected_component(E, SafeNodes(clusters, p), HomeOf(clusters, p))

\* _ensure_safe_paths, lines 213-218: the pairs a jump line may join within the degrees.
SafeCandidates(E, clusters, p) ==
    LET safe == SafeNodes(clusters, p)
        player_reachable == node_connected_component(E, safe, HomeOf(clusters, p))
        fw_reachable == node_connected_component(E, safe, 0)
    IN  SelectSeq(Pairs(Sorted(player_reachable), Sorted(fw_reachable)),
                  LAMBDA pr : /\ Degree(E, pr[1]) < 4 /\ Degree(E, pr[2]) < 4
                              /\ ~has_edge(E, pr[1], pr[2]))

\* Mutant of SafePathEdge: no jump line is added.
SafePathEdge_none(E, clusters, p) == {}

\* _ensure_safe_paths, lines 219-231: the jump line added for a player without a safe path:
\* the candidate of least degree sum, or else the first pair not yet joined.
SafePathEdge(E, clusters, p) ==
    LET safe == SafeNodes(clusters, p)
        player_reachable == node_connected_component(E, safe, HomeOf(clusters, p))
        fw_reachable == node_connected_component(E, safe, 0)
        candidates == SafeCandidates(E, clusters, p)
        weight(pr) == Degree(E, pr[1]) + Degree(E, pr[2])
        least == CHOOSE k \in DOMAIN candidates :
                    /\ \A h \in DOMAIN candidates : weight(candidates[k]) <= weight(candidates[h])
                    /\ \A h \in 1..(k - 1) : weight(candidates[h]) > weight(candidates[k])
        unjoined == SelectSeq(Pairs(Sorted(player_reachable), Sorted(fw_reachable)),
                              LAMBDA pr : ~has_edge(E, pr[1], pr[2]))
    IN  IF candidates # << >> THEN {{candidates[least][1], candidates[least][2]}}
        ELSE IF unjoined # << >> THEN {{unjoined[1][1], unjoined[1][2]}}
        ELSE {}

\* _ensure_safe_paths, lines 197-231, for player gen.i; after the last player generate_map
\* returns the graph as its jump lines (lines 385-389).
GenSafe ==
    /\ gen.phase = "safe"
    /\ LET p == gen.i
           stay == HasSafePath(gen.edges, gen.clusters, p)
           over == ~stay /\ SafeCandidates(gen.edges, gen.clusters, p) = << >>
           E == IF stay THEN gen.edges
                ELSE gen.edges \cup SafePathEdge(gen.edges, gen.clusters, p)
       IN  gen' = [gen EXCEPT !.edges = E,
                              !.fallback = @ \/ over,
                              !.repaired = @ \/ ~stay,
                              !.phase = IF p < gen.num_players THEN "safe" ELSE "done",
                              !.i = IF p < gen.num_players THEN p + 1 ELSE 1]
    /\ UNCHANGED <<store, rpc, last, combat, replay, lobby, regen, creates>>

\* generate_map is called for 2 to MaxPlayers players with a seed up to MaxSeed; the game
\* for which it is called is open and its database empty.
InitGen ==
    /\ game = [status |-> "open", current_turn |-> NULL, winner_player_index |-> NULL]
    /\ materials = << >>
    /\ owner = << >>
    /\ ships = << >>
    /\ structures = [r \in Systems \X StructTypes \X Sides |-> 0]
    /\ turns = << >>
    /\ pts = << >>
    /\ orders = << >>
    /\ order_seq = 0
    /\ snapshots = << >>
    /\ rpc = [k \in TurnIds |-> "idle"]
    /\ last = [op |-> "none", status_code |-> NULL]
    /\ combat = NoCombat
    /\ replay = NoReplay
    /\ regen = NoRegen
    /\ creates = [r \in Requests |-> NoCreate]
    /\ game_players = <<[user_id |-> 1, player_index |-> 1]>>
    /\ joins = [u \in Users |-> NoJoin]
    /\ map_saves = [count |-> 0, status_rows |-> [p \in Players |-> 0]]
    /\ gen \in {StartGen(n, seed) : n \in 2..MaxPlayers, seed \in 0..MaxSeed}

NextGen ==
    \/ GenClusters
    \/ GenDistribute
    \/ GenIntra
    \/ GenRing
    \/ GenBridge
    \/ GenFounders
    \/ GenConnect
    \/ GenSafe

SpecGen == InitGen /\ [][NextGen]_vars

\* ---------------------------------------------------------------------------------------
\* generate_map after the graph (src/map_generator.py, lines 333-405), and a second call
\* with the same arguments
\* ---------------------------------------------------------------------------------------

NumStarNames == 99

\* G.nodes in the order the nodes were added (_build_graph, lines 84-88): Founder's World,
\* then the systems of each cluster in turn.
RECURSIVE NodeOrder(_, _)
NodeOrder(clusters, c) ==
    IF c > Len(clusters) THEN << >>
    ELSE clusters[c].system_ids \o NodeOrder(clusters, c + 1)

\* The states the generator passes through in n draws, the state it starts in first: those of
\* the first half of the draws, then those of the second half.
RECURSIVE RngSeq(_, _)
RngSeq(x, n) ==
    IF n = 0 THEN <<x>>
    ELSE IF n = 1 THEN <<x, RngNext(x)>>
    ELSE LET h == n \div 2
             a == RngSeq(x, h)
         IN  a \o Tail(RngSeq(a[h + 1], n - h))

\* The state of the generator after k of n draws.
RngStates(x, n) == LET st == RngSeq(x, n) IN [k \in 0..n |-> st[k + 1]]

\* rng.uniform(-0.05, 0.05), in thousandths.
uniform(x) == RngBelow(x, 101) - 50

\* _compute_layout, lines 234-296: each system of each cluster gets two drawn offsets from
\* the centre of its cluster, Founder's World is pinned, and one more draw seeds
\* nx.spring_layout (randint(0, 2**31): every number the generator yields is in that range).
\* spring_layout, the scaling and the rounding compute the positions from the graph, these
\* initial positions and this seed, and from nothing else.
_compute_layout(E, clusters, x) ==
    LET order == NodeOrder(clusters, 1)
        st == RngStates(x, 2 * Len(order) + 1)
    IN  [rng |-> st[2 * Len(order) + 1],
         val |-> [initial_pos |-> [k \in 1..Len(order) |->
                                     [sid |-> order[k],
                                      jx |-> uniform(st[2 * (k - 1)]),
                                      jy |-> uniform(st[2 * (k - 1) + 1])]],
                  seed |-> RngNext(st[2 * Len(order)]) \div 16,
                  edges |-> E]]

\* _assign_names, lines 304-310, of names, the shuffled star names (numbered from 1):
\* Founder's World (name 0) comes first, then the shuffled names, then "System i" (name -i)
\* when the star names run out.
_assign_names(num_systems, names) ==
    [k \in 1..num_systems |->
        IF k = 1 THEN 0
        ELSE IF k - 2 < Len(names) THEN names[k - 1] ELSE 0 - (k - 1)]

\* _roll_mining_value, lines 27-29
_roll_mining_value(x) ==
    LET d1 == randint(x, 1, 6)
        d2 == randint(d1.rng, 1, 6)
    IN  [rng |-> d2.rng, val |-> d1.val + d2.val - 2]

\* The first system of each player cluster (generate_map, lines 340-344).
home_system_ids(clusters) ==
    {clusters[c].system_ids[1] : c \in {d \in DOMAIN clusters : clusters[d].is_home_cluster}}

\* generate_map, lines 346-354: Founder's World and the home systems are worth 5, every
\* other system gets a roll, in the order of G.nodes.
MiningValues(clusters, x) ==
    LET order == NodeOrder(clusters, 1)
        homes == home_system_ids(clusters)
        rolled == SelectSeq(order, LAMBDA v : v \notin homes)
        st == RngStates(x, 2 * Len(rolled))
        at(v) == CHOOSE k \in 1..Len(rolled) : rolled[k] = v
    IN  [rng |-> st[2 * Len(rolled)],
         val |-> [v \in Nodes(clusters) |->
                    IF v = 0 \/ v \in homes THEN HOME_MINING_VALUE
                    ELSE _roll_mining_value(st[2 * (at(v) - 1)]).val]]

\* generate_map, line 333: the layout.
GenLayout ==
    /\ gen.phase = "done"
    /\ LET l == _compute_layout(gen.edges, gen.clusters, gen.rng)
       IN  gen' = [gen EXCEPT !.phase = "names", !.rng = l.rng, !.layout = l.val]
    /\ UNCHANGED <<store, rpc, last, combat, replay, lobby, regen, creates>>

\* _assign_names, line 301: the list of the star names is copied.
GenNames ==
    /\ gen.phase = "names"
    /\ gen' = [gen EXCEPT !.phase = "shuffle", !.names = [k \in 1..NumStarNames |-> k],
                          !.i = NumStarNames - 1]
    /\ UNCHANGED <<store, rpc, last, combat, replay, lobby, regen, creates>>

\* _assign_names, line 302: one swap of rng.shuffle(names), of position i (counted from 0)
\* with a drawn position at or below it; after the last swap the result is put together
\* (lines 304-310).
GenShuffle ==
    /\ gen.phase = "shuffle"
    /\ LET i == gen.i
           j == RngBelow(gen.rng, i + 1)
           swapped == [gen.names EXCEPT ![i + 1] = gen.names[j + 1], ![j + 1] = gen.names[i + 1]]
       IN  gen' = [gen EXCEPT !.rng = RngNext(gen.rng),
                              !.i = i - 1,
                              !.names = IF i > 1 THEN swapped
                                        ELSE _assign_names(gen.num_systems, swapped),
                              !.phase = IF i > 1 THEN "shuffle" ELSE "mining"]
    /\ UNCHANGED <<store, rpc, last, combat, replay, lobby, regen, creates>>

\* generate_map, lines 336-354: the mining values.
GenMining ==
    /\ gen.phase = "mining"
    /\ LET m == MiningValues(gen.clusters, gen.rng)
       IN  gen' = [gen EXCEPT !.phase = "assembled", !.rng = m.rng, !.mining_values = m.val]
    /\ UNCHANGED <<store, rpc, last, combat, replay, lobby, regen, creates>>

\* What generate_map returns (lines 356-405): the systems by ascending id with their name,
\* position, mining value, cluster and home owner, the jump lines, and the clusters.
Result(g) ==
    [systems |-> [v \in Nodes(g.clusters) |->
                    [name |-> g.names[v + 1],
                     mining_value |-> g.mining_values[v],
                     cluster_id |-> IF v = 0 THEN 0 - 1
                                    ELSE (CHOOSE c \in DOMAIN g.clusters :
                                            v \in IdsOf(g.clusters[c])) - 1,
                     is_home_system |-> v \in home_system_ids(g.clusters),
                     is_founders_world |-> v = 0,
                     owner_player_index |->
                        IF v \in home_system_ids(g.clusters)
                        THEN g.clusters[CHOOSE c \in DOMAIN g.clusters :
                                            v \in IdsOf(g.clusters[c])].player_index
                        ELSE NULL]],
     positions |-> g.layout,
     jump_lines |-> g.edges,
     clusters |-> [c \in DOMAIN g.clusters |->
                    [id |-> g.clusters[c].id,
                     is_home_cluster |-> g.clusters[c].is_home_cluster,
                     player_index |-> g.clusters[c].player_index,
                     system_ids |-> Sorted(IdsOf(g.clusters[c]))]]]

\* generate_map returns, line 401.
GenReturn ==
    /\ gen.phase = "assembled"
    /\ gen' = [gen EXCEPT !.phase = "returned"]
    /\ UNCHANGED <<store, rpc, last, combat, replay, lobby, regen, creates>>

\* Some other code of the process draws from the random module between the two calls.
OtherDraw ==
    /\ gen.phase = "returned"
    /\ regen.first = << >>
    /\ regen.global < MaxDraws
    /\ regen' = [regen EXCEPT !.global = @ + 1]
    /\ UNCHANGED <<store, rpc, last, combat, replay, lobby, creates, gen>>

\* generate_map is called again with the same number of players and the same seed
\* (test_deterministic_with_seed, lines 213-214).
GenAgain ==
    /\ gen.phase = "returned"
    /\ regen.first = << >>
    /\ regen' = [regen EXCEPT !.first = <<Result(gen)>>]
    /\ gen' = StartGen(gen.num_players, gen.seed)
    /\ UNCHANGED <<store, rpc, last, combat, replay, lobby, creates>>

NextRegen ==
    \/ NextGen
    \/ GenLayout
    \/ GenNames
    \/ GenShuffle
    \/ GenMining
    \/ GenReturn
    \/ OtherDraw
    \/ GenAgain

SpecRegen == InitGen /\ [][NextRegen]_vars

(***************************************************************************)
(* The claims.                                                             *)
(***************************************************************************)

\* C1: a turn all of whose players have submitted is resolved: its status is resolved, the
\* next turn exists and is active, and current_turn has moved on to it.
C1_AllSubmittedResolves ==
    \A k \in DOMAIN turns :
        (\A p \in Players : pts[<<k, p>>].submitted)
            => /\ turns[k].status = "resolved"
               /\ (k + 1) \in DOMAIN turns
               /\ game.current_turn > k

\* C2: the resolver's effects are applied exactly once to a turn all of whose players have
\* submitted: there is exactly one snapshot of the turn.
C2_EffectsAppliedExactlyOnce ==
    \A k \in DOMAIN turns :
        (\A p \in Players : pts[<<k, p>>].submitted)
            => Cardinality({x \in DOMAIN snapshots : x = k}) = 1

\* C3: resolution commits atomically: no committed state has a turn resolved (or its
\* snapshot written) without the next turn, its status rows and the advanced current_turn,
\* and a resolution that fails leaves the turn active and without snapshot.
C3_ResolutionAtomic ==
    \A k \in DOMAIN turns :
        /\ (turns[k].status = "resolved" \/ k \in DOMAIN snapshots)
            => /\ (k + 1) \in DOMAIN turns
               /\ \A p \in Players : <<k + 1, p>> \in DOMAIN pts
               /\ game.current_turn > k
        /\ rpc[k] = "failed" => turns[k].status = "active" /\ k \notin DOMAIN snapshots

\* C4: the materials of every system are at least 0 in every committed state.
C4_MaterialsNonNegative == \A s \in Systems : materials[s] >= 0

\* C5: for the active turn, the ships a player has ordered out of a system are no more than
\* the ships the player has there.
C5_MovesWithinShips ==
    \A k \in DOMAIN turns, p \in Players, s \in Systems :
        turns[k].status = "active"
            => _committed_ships_out(orders, k, p, s) <= ShipCount(ships, s, p)

C7_SubmittedMonotonic ==
    [][/\ \A r \in DOMAIN pts :
             /\ r \in DOMAIN pts'
             /\ pts[r].submitted => pts'[r] = pts[r]
             /\ (~pts[r].submitted /\ pts'[r].submitted)
                    => SubmitTurn(r[2], r[1]) /\ last' = Response("submit_turn", r[2], r[1], "ok")
       /\ \A r \in DOMAIN pts' \ DOMAIN pts : ~pts'[r].submitted]_vars

\* C7 witness: a turn has been resolved and the next turn's rows created while a player's
\* flag for the resolved turn is still true.
C7_Witness ==
    \E k \in DOMAIN turns, p \in Players :
        /\ pts[<<k, p>>].submitted
        /\ turns[k].status = "resolved"
        /\ <<k + 1, p>> \in DOMAIN pts
        /\ ~pts[<<k + 1, p>>].submitted

\* C8: a submit request of a player whose flag for the turn is already true is answered
\* "Already submitted" and changes nothing: the flag, submitted_at, the turn, the orders;
\* the resolver is not run.
C8_ResubmitRejected ==
    [][\A p \in Players, k \in TurnIds :
          (<<k, p>> \in DOMAIN pts /\ pts[<<k, p>>].submitted /\ SubmitTurn(p, k))
              => /\ last' = Response("submit_turn", p, k, "Already submitted")
                 /\ UNCHANGED <<store, rpc>>]_vars

\* C8 witness: the one player who has submitted has sent submit again and got 400.
C8_Witness ==
    /\ Cardinality({r \in DOMAIN pts : pts[r].submitted}) = 1
    /\ last = Response("submit_turn", NULL, NULL, "Already submitted")

\* C9: a system has at most one mine and at most one shipyard, and a system with a shipyard
\* has a mine.
C9_StructuresWellFormed ==
    \A s \in Systems :
        LET mines == structures[<<s, "mine", 1>>] + structures[<<s, "mine", 2>>]
                     + structures[<<s, "mine", NEUTRAL_PLAYER_INDEX>>]
            yards == structures[<<s, "shipyard", 1>>] + structures[<<s, "shipyard", 2>>]
                     + structures[<<s, "shipyard", NEUTRAL_PLAYER_INDEX>>]
        IN  mines <= 1 /\ yards <= 1 /\ (yards > 0 => mines > 0)

\* C10: every ship row holds at least one ship.
C10_ShipRowsPositive == \A r \in DOMAIN ships : ships[r] >= 1

\* C11: a system all of whose ship groups belong to one player index, the neutral index
\* included, is owned by that index.
C11_SoleOccupantOwns ==
    \A s \in Systems :
        \A p \in Sides : PlayersPresent(ships, s) = {p} => owner[s] = p

\* C19: the store holds a snapshot with turn_id 0 of the initial board, with no orders.
C19_InitialSnapshot ==
    /\ 0 \in DOMAIN snapshots
    /\ snapshots[0].orders = << >>

\* C20: nothing of turn k+1 is in the store before the snapshot of turn k: no order row, no
\* submitted flag, no resolved status.
C20_SnapshotBeforeNextTurn ==
    \A k \in TurnIds :
        (k > 1 /\ (k - 1) \notin DOMAIN snapshots)
            => /\ \A o \in DOMAIN orders : o.turn_id # k
               /\ \A p \in Players : <<k, p>> \in DOMAIN pts => ~pts[<<k, p>>].submitted
               /\ k \in DOMAIN turns => turns[k].status # "resolved"

\* C12: once a turn has been resolved, no system holds ship groups with count > 0 of two or
\* more sides, the neutral side included.
C12_NoContestedSystem ==
    snapshots # << >> => \A s \in Systems : Cardinality(PlayersPresent(ships, s)) <= 1

\* A resolved turn in which both players moved ships into the same system.
C12_Witness ==
    \E k \in DOMAIN snapshots :
        \E i, j \in DOMAIN snapshots[k].orders :
            LET a == snapshots[k].orders[i]
                b == snapshots[k].orders[j]
            IN  /\ a.order_type = "move_ships" /\ b.order_type = "move_ships"
                /\ a.player_index # b.player_index
                /\ a.target_system_id = b.target_system_id
                /\ a.quantity > 0 /\ b.quantity > 0

\* C13: a resolution that runs to its end leaves the game completed with winner p exactly
\* when Founder's World is then owned by a player p; while Founder's World is unowned or owned
\* by the neutral index the game is active without winner, and nothing but the end of a
\* resolution changes the status or the winner.
C13_VictoryCheck ==
    [][LET ends == {k \in TurnIds : rpc[k] # "done" /\ rpc'[k] = "done"} IN
       /\ owner'[FW] \notin Players
            => game'.status = "active" /\ game'.winner_player_index = NULL
       /\ ends # {}
            => IF owner'[FW] \in Players
               THEN game'.status = "completed" /\ game'.winner_player_index = owner'[FW]
               ELSE game'.status = "active" /\ game'.winner_player_index = NULL
       /\ ends = {}
            => /\ game'.status = game.status
               /\ game'.winner_player_index = game.winner_player_index]_vars

\* A resolution has ended with a player owning Founder's World, and the player has won.
C13_Witness ==
    /\ \E k \in TurnIds : rpc[k] = "done"
    /\ owner[FW] \in Players
    /\ game.status = "completed"
    /\ game.winner_player_index = owner[FW]

\* C14: the resolution of a turn changes the materials of each system by: minus the amounts
\* the turn's build_mine orders draw from it, minus 30 for each build_shipyard order on it,
\* minus the quantities of the build_ships orders on it, plus its mining value if and only
\* if it then has an owner and a mine of that owner; no other step changes materials.
C14_MaterialsAccounting ==
    [][LET resolved == {k \in TurnIds : k \notin DOMAIN snapshots /\ k \in DOMAIN snapshots'} IN
       /\ resolved = {} => materials' = materials
       /\ \A k \in resolved, s \in Systems :
            LET os == OrdersOf(k)
                on(t) == SelectSeq(os, LAMBDA o : o.order_type = t /\ o.source_system_id = s)
                donated == SourceAmountSum(SelectSeq(os, LAMBDA o : o.order_type = "build_mine"), s)
                produced == IF owner'[s] # NULL /\ structures'[<<s, "mine", owner'[s]>>] > 0
                            THEN mining_value[s] ELSE 0
            IN  materials'[s] = materials[s] - donated
                                - SHIPYARD_COST * Len(on("build_shipyard"))
                                - QuantitySum(on("build_ships")) + produced]_vars

\* C15: a mine built by a build_mine order of turn k does not produce in the resolution of
\* turn k: the materials of a system without mine on which the turn builds one change by what
\* the turn's orders spend from it only.
C15_FreshMineProducesNextTurn ==
    [][\A k \in TurnIds, s \in Systems :
          LET os == OrdersOf(k)
              on(t) == SelectSeq(os, LAMBDA o : o.order_type = t /\ o.source_system_id = s)
              donated == SourceAmountSum(SelectSeq(os, LAMBDA o : o.order_type = "build_mine"), s)
          IN  (/\ k \notin DOMAIN snapshots /\ k \in DOMAIN snapshots'
               /\ ~_get_structure(structures, s, "mine")
               /\ on("build_mine") # << >>)
                  => materials'[s] = materials[s] - donated
                                     - SHIPYARD_COST * Len(on("build_shipyard"))
                                     - QuantitySum(on("build_ships"))]_vars

\* C16: when a turn whose orders are all move_ships is resolved and no system is contested
\* after the moves, every group (system, side) has afterwards the ships it had, minus the
\* quantities ordered out of it, plus the quantities ordered into it; so the ships of every
\* side, and of all sides together, are as many as before.
C16_MovesConserveShips ==
    [][\A k \in TurnIds :
          LET os == OrdersOf(k)
              out(s, p) == QuantitySum(SelectSeq(os, LAMBDA o :
                               o.player_index = p /\ o.source_system_id = s))
              in(s, p) == QuantitySum(SelectSeq(os, LAMBDA o :
                               o.player_index = p /\ o.target_system_id = s))
              moved(s, p) == ShipCount(ships, s, p) - out(s, p) + in(s, p)
          IN  (/\ k \notin DOMAIN snapshots /\ k \in DOMAIN snapshots'
               /\ \A i \in DOMAIN os : os[i].order_type = "move_ships"
               /\ \A s \in Systems : Cardinality({p \in Sides : moved(s, p) > 0}) <= 1)
                  => /\ \A s \in Systems, p \in Sides : ShipCount(ships', s, p) = moved(s, p)
                     /\ \A p \in Sides :
                            ShipCount(ships', 1, p) + ShipCount(ships', 2, p)
                              + ShipCount(ships', 3, p) + ShipCount(ships', 4, p)
                            = ShipCount(ships, 1, p) + ShipCount(ships, 2, p)
                              + ShipCount(ships, 3, p) + ShipCount(ships, 4, p)]_vars

\* The first turn was resolved with move orders only, all into Bridge and all of the first
\* player, whose ships there were joined by the ships that arrived.
C16_Witness ==
    /\ 1 \in DOMAIN snapshots
    /\ snapshots[1].orders # << >>
    /\ \A i \in DOMAIN snapshots[1].orders :
          /\ snapshots[1].orders[i].order_type = "move_ships"
          /\ snapshots[1].orders[i].player_index = 1
          /\ snapshots[1].orders[i].target_system_id = Bridge
    /\ snapshots[1].ships[<<Bridge, 1>>] = EXPANSION_FLEET + QuantitySum(snapshots[1].orders)

\* C17: in a combat the rounds are numbered 1, 2, ... in order; the entry of a round lists
\* the sides that had ships at its start; for each of them 0 <= ships_after <= ships_before,
\* and ships_before is the side's ships_after of the round before.
C17_CombatRounds ==
    \A r \in DOMAIN combat.log :
        LET sides == combat.log[r].combatants IN
        /\ combat.log[r].round_number = r
        /\ r > 1 => DOMAIN sides = {p \in DOMAIN combat.log[r - 1].combatants :
                                       combat.log[r - 1].combatants[p].ships_after > 0}
        /\ \A p \in DOMAIN sides :
              /\ 0 <= sides[p].ships_after
              /\ sides[p].ships_after <= sides[p].ships_before
              /\ r > 1 => sides[p].ships_before = combat.log[r - 1].combatants[p].ships_after

\* A combat of three sides with a second round, in which a side fights on after it has lost
\* ships in the first round.
C17_Witness ==
    /\ Len(combat.log) >= 2
    /\ Cardinality(DOMAIN combat.log[1].combatants) = 3
    /\ \E p \in DOMAIN combat.log[2].combatants :
          combat.log[1].combatants[p].ships_after < combat.log[1].combatants[p].ships_before

\* C18: a turn is resolved exactly when it has its snapshot; the snapshot written by the
\* resolution of turn k lists the materials and owners of the systems, the ship groups with
\* count > 0 and the structures as the resolution leaves them, and the orders of turn k with
\* the donors of its build_mine orders; a snapshot once written is never changed or removed.
C18_SnapshotOfResolvedTurn ==
    [][/\ \A k \in DOMAIN turns' : turns'[k].status = "resolved" <=> k \in DOMAIN snapshots'
       /\ \A k \in DOMAIN snapshots : k \in DOMAIN snapshots' /\ snapshots'[k] = snapshots[k]
       /\ \A k \in DOMAIN snapshots' \ DOMAIN snapshots :
            LET snap == snapshots'[k] IN
            /\ snap.turn_id = k
            /\ \A s \in Systems : /\ snap.systems[s].materials = materials'[s]
                                   /\ snap.systems[s].owner_player_index = owner'[s]
            /\ DOMAIN snap.ships = {r \in DOMAIN ships' : ships'[r] > 0}
            /\ \A r \in DOMAIN snap.ships : snap.ships[r] = ships'[r]
            /\ snap.structures = structures'
            /\ snap.orders = OrdersOf(k)]_vars

\* The snapshot of a turn with a build_mine order and its donors, written while a ship row of
\* count 0 was in the store.
C18_Witness ==
    \E k \in DOMAIN snapshots :
        /\ \E i \in DOMAIN snapshots[k].orders :
              /\ snapshots[k].orders[i].order_type = "build_mine"
              /\ snapshots[k].orders[i].material_sources # << >>
        /\ \E r \in DOMAIN ships : ships[r] = 0 /\ r \notin DOMAIN snapshots[k].ships

C23_OrdersFromOwnSystems ==
    [][\A o \in DOMAIN orders' :
          (o \notin DOMAIN orders \/ orders'[o] > orders[o])
              => /\ o.source_system_id \in Systems
                 /\ owner[o.source_system_id] = o.player_index
                 /\ \A i \in DOMAIN o.material_sources :
                        /\ o.material_sources[i].system_id \in Systems
                        /\ owner[o.material_sources[i].system_id] = o.player_index
                 /\ \E s \in Systems : owner[s] = o.player_index]_vars

\* A build_mine order with donors is in the store, on a system of the ordering player, and
\* the last request was an accepted create-order request.
C23_Witness ==
    /\ last.op = "create_order" /\ last.status_code = 200
    /\ \E o \in DOMAIN orders :
          /\ o.order_type = "build_mine"
          /\ o.material_sources # << >>
          /\ owner[o.source_system_id] = o.player_index

C21_CombatReplayExact ==
    (replay.done /\ Cardinality(combat.active) <= 1)
        => (combat.log = replay.log /\ combat.current = replay.current)

\* C25: after map generation every home system holds one ship group of 1 ship, one mine and
\* one shipyard of its owner, Founder's World holds one ship group of 300 ships of player
\* -1, no other system holds ships, structures or materials, and turn 1 is active with one
\* status row per player, none submitted.
C25_InitialBoard ==
    map_saves.count >= 1 =>
        /\ \A p \in Players :
              /\ owner[Home[p]] = p
              /\ {r \in DOMAIN ships : r[1] = Home[p]} = {<<Home[p], p>>}
              /\ ships[<<Home[p], p>>] = 1
              /\ \A t \in StructTypes, q \in Sides :
                    structures[<<Home[p], t, q>>] = (IF q = p THEN 1 ELSE 0)
        /\ {r \in DOMAIN ships : r[1] = FW} = {<<FW, NEUTRAL_PLAYER_INDEX>>}
        /\ ships[<<FW, NEUTRAL_PLAYER_INDEX>>] = FW_GARRISON
        /\ \A s \in Systems \ {Home[p] : p \in Players} :
              /\ s # FW => {r \in DOMAIN ships : r[1] = s} = {}
              /\ \A t \in StructTypes, q \in Sides : structures[<<s, t, q>>] = 0
              /\ materials[s] = 0
        /\ DOMAIN turns = {1} /\ turns[1].status = "active"
        /\ DOMAIN pts = {1} \X (1..num_players)
        /\ \A p \in 1..num_players :
              /\ map_saves.status_rows[p] = 1
              /\ ~pts[<<1, p>>].submitted

\* C26: the members of the game hold the distinct player indices 1..m with m <= num_players,
\* the game is active only once it is full, with current_turn 1, and the map is generated
\* once.
C26_JoinKeepsRoster ==
    /\ \A i, j \in DOMAIN game_players :
          i # j => game_players[i].player_index # game_players[j].player_index
    /\ {game_players[i].player_index : i \in DOMAIN game_players} = 1..Len(game_players)
    /\ Len(game_players) <= num_players
    /\ map_saves.count <= 1
    /\ game.status = "active" => (Len(game_players) = num_players /\ game.current_turn = 1)

\* The player clusters that have a jump line to a system of cluster c.
PlayerClustersNextTo(c) ==
    {d \in 1..gen.num_players :
        /\ d # c
        /\ \E a \in IdsOf(gen.clusters[c]), b \in IdsOf(gen.clusters[d]) : has_edge(gen.edges, a, b)}

\* C27: the jump-line graph returned by generate_map is connected and every system,
\* Founder's World included, has between 1 and 4 jump lines, unless the over-degree fallback
\* of the connectivity repair or of the safe-path repair fired in the run.
C27_ConnectedWithinDegrees ==
    gen.phase = "done" =>
        /\ node_connected_component(gen.edges, Nodes(gen.clusters), 0) = Nodes(gen.clusters)
        /\ \A e \in gen.edges : e \subseteq Nodes(gen.clusters) /\ Cardinality(e) = 2
        /\ \A v \in Nodes(gen.clusters) : Degree(gen.edges, v) >= 1
        /\ ~gen.fallback => \A v \in Nodes(gen.clusters) : Degree(gen.edges, v) <= 4

\* A map has been returned without a fallback, and Founder's World has its four jump lines.
C27_Witness ==
    /\ gen.phase = "done" /\ ~gen.fallback
    /\ Degree(gen.edges, 0) = 4

\* C28: in the returned map every player has a path from the home system to Founder's World
\* through systems of the own cluster, of neutral clusters and Founder's World only.
C28_SafePaths ==
    gen.phase = "done" =>
        \A p \in 1..gen.num_players :
            LET safe == {0} \cup IdsOf(gen.clusters[p])
                            \cup UNION {IdsOf(gen.clusters[c]) :
                                           c \in (gen.num_players + 1)..Len(gen.clusters)}
            IN  0 \in Reach(gen.edges, safe, {gen.clusters[p].system_ids[1]})

\* A map has been returned for which the safe-path repair added a jump line.
C28_Witness == gen.phase = "done" /\ gen.repaired

\* C29: the returned map has a neutral cluster, and every neutral cluster has a system and
\* jump lines to systems of two or more player clusters.
C29_NeutralBridges ==
    gen.phase = "done" =>
        /\ Len(gen.clusters) > gen.num_players
        /\ \A c \in (gen.num_players + 1)..Len(gen.clusters) :
              /\ ~gen.clusters[c].is_home_cluster
              /\ Len(gen.clusters[c].system_ids) >= 1
              /\ Cardinality(PlayerClustersNextTo(c)) >= 2

\* A map for two players with two neutral clusters has been returned.
C29_Witness ==
    /\ gen.phase = "done" /\ gen.num_players = 2
    /\ Len(gen.clusters) = gen.num_players + 2

\* C30: in a returned map for three or more players every player cluster has jump lines to
\* systems of two or more other player clusters.
C30_PlayerRing ==
    (gen.phase = "done" /\ gen.num_players >= 3) =>
        \A c \in 1..gen.num_players : Cardinality(PlayerClustersNextTo(c)) >= 2

\* A map for three players has been returned.
C30_Witness == gen.phase = "done" /\ gen.num_players = 3

C32_OneActiveTurn ==
    game.status # "open" =>
        LET active == {k \in DOMAIN turns : turns[k].status = "active"}
        IN  /\ Cardinality(active) = 1
            /\ \A k \in active :
                    /\ \A j \in DOMAIN turns : j <= k /\ (j < k => turns[j].status = "resolved")
                    /\ game.current_turn = k
            /\ \A k \in DOMAIN turns, p \in Players : <<k, p>> \in DOMAIN pts

\* C33: every order row that is inserted carries the id of a turn that exists and is active
\* at that moment: a create-order request for a turn that does not exist yet, or that is
\* already resolved, persists nothing.
C33_OrdersForActiveTurn ==
    [][\A o \in DOMAIN orders' :
          (o \notin DOMAIN orders \/ orders'[o] > orders[o])
              => /\ o.turn_id \in DOMAIN turns
                 /\ turns[o.turn_id].status = "active"]_vars

\* C34: the checks and the insertion of a create-order request are one step: after a request
\* has inserted its row, the ships the player has ordered out of a system in the turn are no
\* more than the player has there, and the materials committed from a system are no more
\* than it holds, also when several requests of the player are served at the same time.
C34_CheckAndInsertAtomic ==
    [][\A r \in Requests :
          CreateInsert(r) =>
              LET row == creates[r].row IN
              \A s \in Systems :
                  /\ _committed_ships_out(orders', row.turn_id, row.player_index, s)
                        <= ShipCount(ships, s, row.player_index)
                  /\ _committed_materials(orders', row.turn_id, row.player_index, s)
                        <= materials[s]]_vars

C36_RoundLosses ==
    combat.log # << >> =>
        LET e == combat.log[Len(combat.log)].combatants
            sides == DOMAIN e
            loss == [p \in sides |-> e[p].ships_before - e[p].ships_after]
            hit == [p \in sides |-> e[p].hits_scored]
            pairs == {x \in sides \X sides : x[1] # x[2]}
        IN  /\ \A p \in sides : 0 <= hit[p] /\ hit[p] <= e[p].ships_before
            /\ Cardinality(sides) = 2 =>
                    \A p \in sides : \A q \in sides \ {p} :
                        loss[p] = Min(e[p].ships_before, hit[q])
            /\ Cardinality(sides) > 2 =>
                    \E d \in [pairs -> 0..MaxFleet] :
                        /\ \A a \in sides :
                              Sum([t \in sides \ {a} |-> d[<<a, t>>]], sides \ {a}) = hit[a]
                        /\ \A t \in sides :
                              loss[t] = Min(e[t].ships_before,
                                            Sum([a \in sides \ {t} |-> d[<<a, t>>]], sides \ {t}))
            /\ Sum(loss, sides) <= Sum(hit, sides)

\* A round of three sides in which more hits were directed at a side than it had ships, and
\* a round of two sides in which a side lost ships.
C36_Witness ==
    /\ Len(combat.log) >= 2
    /\ LET e == combat.log[1].combatants
       IN  /\ Cardinality(DOMAIN e) = 3
           /\ Sum([p \in DOMAIN e |-> e[p].ships_before - e[p].ships_after], DOMAIN e)
                 < Sum([p \in DOMAIN e |-> e[p].hits_scored], DOMAIN e)
    /\ LET e == combat.log[2].combatants
       IN  /\ Cardinality(DOMAIN e) = 2
           /\ \E p \in DOMAIN e : e[p].ships_after < e[p].ships_before

\* C37: when a turn has been resolved, every structure belongs to the owner of the system it
\* stands on.
C37_StructuresWithOwner ==
    [][\A k \in TurnIds :
          (k \notin DOMAIN snapshots /\ k \in DOMAIN snapshots') =>
              \A s \in Systems, t \in StructTypes, q \in Sides :
                  structures'[<<s, t, q>>] > 0 => owner'[s] = q]_vars

\* C38: the state after steps 1-4 of a resolution does not depend on the order in which the
\* loop of each step meets the orders of the turn; the ships built in step 3 are counted
\* when step 4 moves ships; and combat starts from the ships as all moves have left them.
C38_StepsOrderIndependent ==
    [][\A k \in TurnIds :
          (k \notin DOMAIN snapshots /\ k \in DOMAIN snapshots') =>
              LET os == OrdersOf(k)
                  pre == [materials |-> materials, owner |-> owner, ships |-> ships,
                          structures |-> structures]
                  after == ApplyOrders(pre, os)
                  perms == {f \in [DOMAIN os -> DOMAIN os] : \A i, j \in DOMAIN os : f[i] = f[j] => i = j}
                  by(f) == [i \in DOMAIN os |-> os[f[i]]]
                  of(t) == SelectSeq(os, LAMBDA o : o.order_type = t)
                  built(s, q) == QuantitySum(SelectSeq(of("build_ships"), LAMBDA o :
                                     o.player_index = q /\ o.source_system_id = s))
                  out(s, q) == QuantitySum(SelectSeq(of("move_ships"), LAMBDA o :
                                   o.player_index = q /\ o.source_system_id = s))
                  in(s, q) == QuantitySum(SelectSeq(of("move_ships"), LAMBDA o :
                                  o.player_index = q /\ o.target_system_id = s))
              IN  /\ \A f1 \in perms, f2 \in perms, f3 \in perms, f4 \in perms :
                        OrderStep(OrderStep(OrderStep(OrderStep(pre, by(f1), "build_mine"),
                                                      by(f2), "build_shipyard"),
                                            by(f3), "build_ships"),
                                  by(f4), "move_ships") = after
                  /\ \A s \in Systems, q \in Sides :
                        ShipCount(after.ships, s, q)
                            = ShipCount(ships, s, q) + built(s, q) - out(s, q) + in(s, q)
                  /\ \A s \in Systems :
                        IF Cardinality(PlayersPresent(after.ships, s)) <= 1
                        THEN \A q \in Sides : ShipCount(ships', s, q) = ShipCount(after.ships, s, q)
                        ELSE Cardinality(PlayersPresent(ships', s)) <= 1]_vars

\* The first turn was resolved with two orders of the first player: ships built at its home
\* system, and ships moved out of it to Bridge.
C38_Witness ==
    /\ 1 \in DOMAIN snapshots
    /\ Len(snapshots[1].orders) = 2
    /\ \E i, j \in DOMAIN snapshots[1].orders :
          /\ snapshots[1].orders[i].order_type = "build_ships"
          /\ snapshots[1].orders[j].order_type = "move_ships"
          /\ snapshots[1].orders[i].player_index = 1
          /\ snapshots[1].orders[j].player_index = 1
          /\ snapshots[1].ships[<<Home[1], 1>>]
                = HOME_FLEET + snapshots[1].orders[i].quantity - snapshots[1].orders[j].quantity
          /\ snapshots[1].ships[<<Bridge, 1>>] = EXPANSION_FLEET + snapshots[1].orders[j].quantity

\* C39: a combat ends: if passes of the round loop in which some ship hits keep coming, the
\* loop reaches a state in which at most one side has ships, where it is left (line 173) and
\* resolve_turn goes on to the ownership step.
C39_CombatTerminates == <>(Cardinality(combat.active) <= 1)

\* The loop was left after MaxRounds passes without a hit and passes with hits, three sides
\* having started with MaxFleet ships each.
C39_Witness ==
    /\ Cardinality(combat.active) <= 1
    /\ Len(combat.log) > MaxRounds
    /\ \A r \in 1..MaxRounds : \A p \in DOMAIN combat.log[r].combatants :
          /\ combat.log[r].combatants[p].hits_scored = 0
          /\ combat.log[r].combatants[p].ships_before = MaxFleet
    /\ Cardinality(DOMAIN combat.log[1].combatants) = 3

\* C40: once the game is completed with a winner, nothing changes its status or its winner:
\* no order, no submission and no later resolution, whoever then owns Founder's World.
C40_CompletedIsFinal ==
    [][game.status = "completed"
          => /\ game'.status = "completed"
             /\ game'.winner_player_index = game.winner_player_index]_vars

====
